---------------------------- MODULE Spec2Model ----------------------------
(***************************************************************************)
(* The board-state core of the engine (src/src/position.cpp): the Position *)
(* object with its chain of StateInfo records, do_move / undo_move,        *)
(* do_null_move / undo_null_move, legality and check detection, static     *)
(* exchange evaluation, draw detection, and the FEN reader and writer.     *)
(*                                                                         *)
(* A Bitboard is modelled as the set of its squares, a Key as the set of   *)
(* its 1 bits, the state chain st -> previous -> ... as a sequence whose   *)
(* last element is the current state.                                      *)
(***************************************************************************)
EXTENDS Integers, FiniteSets, Sequences, TLC

(***************************************************************************)
(* Enumerations of types.h, with the values the code relies on:            *)
(* PieceToChar " PNBRQK  pnbrqk" fixes the piece codes (colour * 8 + type) *)
(* and the square numbering is A1 = 0 .. H8 = 63.                          *)
(***************************************************************************)
WHITE == 0

BLACK == 1

ALL_PIECES == 0

PAWN == 1

KNIGHT == 2

BISHOP == 3

ROOK == 4

QUEEN == 5

KING == 6

NO_PIECE == 0

NO_PIECE_TYPE == 0

SQ_A1 == 0

SQ_C1 == 2

SQ_D1 == 3

SQ_F1 == 5

SQ_G1 == 6

SQ_H1 == 7

SQ_NONE == 64

WHITE_OO == 1

WHITE_OOO == 2

BLACK_OO == 4

BLACK_OOO == 8

NORMAL == "NORMAL"

PROMOTION == "PROMOTION"

EN_PASSANT == "EN_PASSANT"

CASTLING == "CASTLING"

Colors == {WHITE, BLACK}

PieceTypes == PAWN..KING

Squares == 0..63

\* CastlingRights values are modelled as sets of the four single rights.
KING_SIDE == {WHITE_OO, BLACK_OO}

QUEEN_SIDE == {WHITE_OOO, BLACK_OOO}

WHITE_CASTLING == {WHITE_OO, WHITE_OOO}

BLACK_CASTLING == {BLACK_OO, BLACK_OOO}

ANY_CASTLING == WHITE_CASTLING \cup BLACK_CASTLING

\* operator&(Color, CastlingRights)
ColorRights(c, cr) == (IF c = WHITE THEN WHITE_CASTLING ELSE BLACK_CASTLING) \cap cr

\* The integer a CastlingRights value has in the code (index of Zobrist::castling).
RECURSIVE SumSet(_)
SumSet(S) == IF S = {} THEN 0 ELSE LET x == CHOOSE y \in S : TRUE IN x + SumSet(S \ {x})

CrIndex(cr) == SumSet(cr)

Opp(c) == 1 - c

make_piece(c, pt) == 8 * c + pt

type_of(pc) == pc % 8

color_of(pc) == pc \div 8

Pieces == { make_piece(c, pt) : c \in Colors, pt \in PieceTypes }

file_of(s) == s % 8

rank_of(s) == s \div 8

make_square(f, r) == 8 * r + f

relative_rank_r(c, r) == IF c = WHITE THEN r ELSE 7 - r

relative_rank(c, s) == relative_rank_r(c, rank_of(s))

relative_square(c, s) == make_square(file_of(s), relative_rank(c, s))

pawn_push(c) == IF c = WHITE THEN 8 ELSE -8

\* Value PieceValue[MG][pt]: PawnValueMg .. QueenValueMg, 0 for none and king.
PieceValueMg == <<126, 781, 825, 1276, 2538, 0>>

PieceValue(pc) == IF type_of(pc) \in PieceTypes THEN PieceValueMg[type_of(pc)] ELSE 0

\* make_move, make<T>: a Move is its origin, destination, type and promotion type.
make_move(from, to) == [from |-> from, to |-> to, type |-> NORMAL, promo |-> KNIGHT]

make(T, from, to, pt) == [from |-> from, to |-> to, type |-> T, promo |-> pt]

from_sq(m) == m.from

to_sq(m) == m.to

promotion_type(m) == m.promo

(***************************************************************************)
(* Zobrist keys.  A Key is a 64-bit word, modelled as the set of the       *)
(* positions (0 = least significant) of its 1 bits, so that XOR of keys is *)
(* the symmetric difference of the sets and 0 is the empty set.  The       *)
(* values are the constants assigned by Position::init(), written as four  *)
(* 16-bit words, most significant first; each line carries the decimal     *)
(* constant of the source in its comment.  Entries init() never assigns    *)
(* (piece codes 0, 7, 8, 15 and castling[0]) stay 0.                       *)
(***************************************************************************)
KeyXor(a, b) == (a \ b) \cup (b \ a)

\* The Key whose four 16-bit words are w[1] (most significant) .. w[4].
KeyOf(w) ==
  UNION { { 16 * (4 - j) + i : i \in { b \in 0..15 : (w[j] \div (2 ^ b)) % 2 = 1 } } : j \in 1..4 }

ZobristPsqWords ==
  <<
  <<
    <<2102, 4347, 7383, 50853>>,  \* psq[1][0] = 591679071752537765
    <<41855, 37963, 59871, 49955>>,  \* psq[1][1] = 11781298203991720739
    <<63147, 48677, 5545, 15547>>,  \* psq[1][2] = 17774509420834274491
    <<333, 23783, 38611, 59937>>,  \* psq[1][3] = 93833316982319649
    <<18038, 10057, 51307, 11239>>,  \* psq[1][4] = 5077288827755375591
    <<44943, 32350, 24280, 55990>>,  \* psq[1][5] = 12650468822090308278
    <<25871, 24072, 2275, 24826>>,  \* psq[1][6] = 7282142511083249914
    <<37433, 11842, 16798, 13271>>,  \* psq[1][7] = 10536503665313592279
    <<16128, 38267, 63001, 64189>>,  \* psq[1][8] = 4539792784031873725
    <<10096, 23033, 25266, 44369>>,  \* psq[1][9] = 2841870292508388689
    <<54758, 46466, 54623, 760>>,  \* psq[1][10] = 15413206348252250872
    <<27279, 49636, 37650, 9761>>,  \* psq[1][11] = 7678569077154129441
    <<47416, 29992, 7706, 40464>>,  \* psq[1][12] = 13346546310876667408
    <<64972, 65094, 64860, 26038>>,  \* psq[1][13] = 18288271767696598454
    <<36839, 26374, 18470, 4246>>,  \* psq[1][14] = 10369369943721775254
    <<64240, 8243, 54440, 58558>>,  \* psq[1][15] = 18081987910875800766
    <<19675, 61891, 39328, 54673>>,  \* psq[1][16] = 5538285989180528017
    <<5547, 71, 2125, 27250>>,  \* psq[1][17] = 1561342000895978098
    <<1224, 950, 14771, 7375>>,  \* psq[1][18] = 344529452680813775
    <<45000, 46797, 51661, 37240>>,  \* psq[1][19] = 12666574946949763448
    <<40804, 35278, 10456, 58591>>,  \* psq[1][20] = 11485456468243178719
    <<28175, 8775, 20137, 9523>>,  \* psq[1][21] = 7930595158480463155
    <<50813, 31998, 16471, 16316>>,  \* psq[1][22] = 14302725423041560508
    <<50914, 56887, 18784, 45779>>,  \* psq[1][23] = 14331261293281981139
    <<15833, 65355, 19634, 887>>,  \* psq[1][24] = 4456874005134181239
    <<10034, 42869, 29859, 19607>>,  \* psq[1][25] = 2824504039224593559
    <<36880, 40704, 28336, 12032>>,  \* psq[1][26] = 10380971965294849792
    <<53718, 38976, 12720, 3745>>,  \* psq[1][27] = 15120440200421969569
    <<8738, 30238, 8178, 20284>>,  \* psq[1][28] = 2459658218254782268
    <<12358, 58130, 62866, 28120>>,  \* psq[1][29] = 3478717432759217624
    <<12004, 37152, 9530, 63271>>,  \* psq[1][30] = 3378985187684316967
    <<34447, 16050, 30305, 55192>>,  \* psq[1][31] = 9696037458963191704
    <<46534, 19683, 55432, 31909>>,  \* psq[1][32] = 13098241107727776933
    <<59371, 16803, 38793, 32504>>,  \* psq[1][33] = 16711523013166202616
    <<35808, 6473, 64595, 50915>>,  \* psq[1][34] = 10079083771611825891
    <<50225, 62233, 6533, 27291>>,  \* psq[1][35] = 14137347994420603547
    <<17023, 59923, 59713, 29723>>,  \* psq[1][36] = 4791805899784156187
    <<21594, 50847, 15644, 26164>>,  \* psq[1][37] = 6078389034317276724
    <<21296, 59632, 2039, 42908>>,  \* psq[1][38] = 5994547221653596060
    <<57601, 32419, 36414, 56012>>,  \* psq[1][39] = 16213379374441749196
    <<16343, 6850, 22482, 39994>>,  \* psq[1][40] = 4600174966381648954
    <<8465, 25053, 37845, 12145>>,  \* psq[1][41] = 2382793282151591793
    <<19330, 35573, 32058, 17522>>,  \* psq[1][42] = 5441064086789571698
    <<46935, 9109, 14315, 34273>>,  \* psq[1][43] = 13211067155709920737
    <<28761, 17665, 36926, 8089>>,  \* psq[1][44] = 8095577678192451481
    <<45724, 13739, 23893, 51831>>,  \* psq[1][45] = 12870220845239618167
    <<65249, 61665, 31039, 39651>>,  \* psq[1][46] = 18366225606586112739
    <<5267, 49296, 48624, 57885>>,  \* psq[1][47] = 1482740430229529117
    <<65365, 35384, 46990, 26958>>,  \* psq[1][48] = 18398763828894394702
    <<45809, 20510, 17112, 50047>>,  \* psq[1][49] = 12894175299039183743
    <<21221, 5765, 41628, 24627>>,  \* psq[1][50] = 5973205243991449651
    <<57105, 41148, 49609, 8659>>,  \* psq[1][51] = 16073805277627490771
    <<42065, 31950, 53572, 22183>>,  \* psq[1][52] = 11840382123049768615
    <<59623, 59317, 63816, 6056>>,  \* psq[1][53] = 16782637305176790952
    <<58854, 2686, 19505, 21414>>,  \* psq[1][54] = 16565939816889406374
    <<27039, 49211, 64570, 53427>>,  \* psq[1][55] = 7611013259146743987
    <<15367, 47932, 14291, 53587>>,  \* psq[1][56] = 4325631834421711187
    <<25169, 48519, 12739, 3250>>,  \* psq[1][57] = 7084652077183601842
    <<50142, 43462, 11342, 56488>>,  \* psq[1][58] = 14113904950837697704
    <<24700, 1667, 11864, 15006>>,  \* psq[1][59] = 6952439085241219742
    <<41559, 17490, 50352, 56597>>,  \* psq[1][60] = 11697893679396085013
    <<56603, 19473, 46497, 44413>>,  \* psq[1][61] = 15932411745698688381
    <<1186, 25414, 33473, 43693>>,  \* psq[1][62] = 333938476871428781
    <<35862, 23591, 47416, 39329>>  \* psq[1][63] = 10094356940478519713
  >>,
  <<
    <<31455, 54229, 21605, 32807>>,  \* psq[2][0] = 8854028305631117351
    <<64887, 19221, 12495, 4950>>,  \* psq[2][1] = 18264149368209609558
    <<64491, 57691, 312, 23683>>,  \* psq[2][2] = 18152850504025660547
    <<1581, 26516, 10584, 36020>>,  \* psq[2][3] = 445125824226036916
    <<26450, 4444, 11347, 9960>>,  \* psq[2][4] = 7445032221575161576
    <<20916, 9781, 61645, 51626>>,  \* psq[2][5] = 5887372625995221418
    <<44691, 50473, 22933, 46584>>,  \* psq[2][6] = 12579614965563241976
    <<55216, 48340, 17252, 42694>>,  \* psq[2][7] = 15542129933905340102
    <<15199, 63658, 42162, 21929>>,  \* psq[2][8] = 4278411582816540073
    <<27775, 4705, 42294, 25754>>,  \* psq[2][9] = 7817987688731403418
    <<59562, 22417, 52292, 4977>>,  \* psq[2][10] = 16765308846548980593
    <<55403, 22645, 51164, 47213>>,  \* psq[2][11] = 15594655397588023405
    <<39494, 53207, 36569, 46946>>,  \* psq[2][12] = 11116801254932199266
    <<41185, 5907, 23958, 57144>>,  \* psq[2][13] = 11592572287770353464
    <<38008, 59966, 37523, 64346>>,  \* psq[2][14] = 10698558469286656858
    <<935, 13296, 12629, 17052>>,  \* psq[2][15] = 263236209937302172
    <<54931, 65436, 2552, 29672>>,  \* psq[2][16] = 15461982991340303336
    <<10813, 36269, 18006, 12490>>,  \* psq[2][17] = 3043744698521235658
    <<3802, 64004, 40916, 14768>>,  \* psq[2][18] = 1070442759222213040
    <<2311, 10611, 11113, 2103>>,  \* psq[2][19] = 650534245804607543
    <<21113, 51048, 277, 19050>>,  \* psq[2][20] = 5943000432800778858
    <<93, 6941, 43740, 359>>,  \* psq[2][21] = 26206987068637543
    <<59462, 3569, 18831, 53141>>,  \* psq[2][22] = 16737080395141468053
    <<49657, 49488, 30431, 26101>>,  \* psq[2][23] = 13977415469856941557
    <<3737, 57241, 36224, 54308>>,  \* psq[2][24] = 1052117838564742180
    <<33481, 57625, 60722, 6922>>,  \* psq[2][25] = 9424311196719389450
    <<43227, 41793, 13218, 76>>,  \* psq[2][26] = 12167498318705983564
    <<15282, 61381, 31961, 273>>,  \* psq[2][27] = 4301764225574437137
    <<61676, 3649, 10562, 7484>>,  \* psq[2][28] = 17360266336634281276
    <<49272, 11411, 44337, 17093>>,  \* psq[2][29] = 13868884065264943813
    <<56673, 58801, 24566, 45346>>,  \* psq[2][30] = 15952283905104982306
    <<17757, 54745, 15085, 14805>>,  \* psq[2][31] = 4998386290424363477
    <<17384, 18228, 34873, 17057>>,  \* psq[2][32] = 4893239286087369377
    <<62433, 46946, 6850, 62965>>,  \* psq[2][33] = 17573528852960048629
    <<8569, 56513, 35374, 3011>>,  \* psq[2][34] = 2412201799238683587
    <<58682, 7237, 40754, 34699>>,  \* psq[2][35] = 16517545668683925387
    <<60320, 41513, 62676, 23291>>,  \* psq[2][36] = 16978748896271686395
    <<31372, 65108, 58207, 50663>>,  \* psq[2][37] = 8830712609912112615
    <<869, 17390, 28194, 65040>>,  \* psq[2][38] = 244676446090624528
    <<38373, 65533, 2804, 15904>>,  \* psq[2][39] = 10801320743593590304
    <<48075, 2048, 37643, 64375>>,  \* psq[2][40] = 13531918303924845431
    <<37399, 56427, 45916, 41958>>,  \* psq[2][41] = 10527125009130628070
    <<62155, 6836, 16912, 41799>>,  \* psq[2][42] = 17495106538955645767
    <<50460, 47986, 39204, 35291>>,  \* psq[2][43] = 14203433425689676251
    <<48885, 57121, 49991, 43233>>,  \* psq[2][44] = 13760149572603586785
    <<4523, 4315, 57273, 15038>>,  \* psq[2][45] = 1273129856199637694
    <<11206, 1202, 29624, 19972>>,  \* psq[2][46] = 3154213753511759364
    <<45333, 9003, 11891, 41745>>,  \* psq[2][47] = 12760143787594064657
    <<5684, 30564, 19412, 32693>>,  \* psq[2][48] = 1600035040276021173
    <<19237, 19841, 25075, 10245>>,  \* psq[2][49] = 5414819345072334853
    <<25583, 15510, 16466, 61688>>,  \* psq[2][50] = 7201040945210650872
    <<39135, 62025, 8767, 38602>>,  \* psq[2][51] = 11015789609492649674
    <<27399, 4207, 54972, 60892>>,  \* psq[2][52] = 7712150959425383900
    <<30351, 61486, 33850, 44304>>,  \* psq[2][53] = 8543311100722720016
    <<46455, 61809, 14492, 38075>>,  \* psq[2][54] = 13076185511676908731
    <<13935, 48657, 57740, 60996>>,  \* psq[2][55] = 3922562784470822468
    <<9878, 35522, 19048, 13924>>,  \* psq[2][56] = 2780562387024492132
    <<23792, 62298, 41642, 27583>>,  \* psq[2][57] = 6697120216501611455
    <<47891, 52390, 46597, 7178>>,  \* psq[2][58] = 13480343126040452106
    <<43249, 36417, 37647, 55359>>,  \* psq[2][59] = 12173667680050468927
    <<11731, 44003, 40266, 61923>>,  \* psq[2][60] = 3302171945877565923
    <<58863, 32742, 33942, 20819>>,  \* psq[2][61] = 16568602182162993491
    <<53124, 34073, 19820, 45648>>,  \* psq[2][62] = 14953223006496535120
    <<58470, 23109, 26630, 20228>>  \* psq[2][63] = 16457941142416543492
  >>,
  <<
    <<10463, 44298, 8283, 11932>>,  \* psq[3][0] = 2945262940327718556
    <<13413, 26720, 1337, 2325>>,  \* psq[3][1] = 3775538624233802005
    <<15248, 63201, 63173, 26688>>,  \* psq[3][2] = 4292201895252289600
    <<58384, 40729, 59898, 32661>>,  \* psq[3][3] = 16433809973923446677
    <<4564, 28456, 54234, 52868>>,  \* psq[3][4] = 1284774014851141252
    <<65067, 46514, 22462, 18767>>,  \* psq[3][5] = 18314932087213148495
    <<31785, 26593, 45549, 2965>>,  \* psq[3][6] = 8946796353798605717
    <<58427, 19000, 6714, 14287>>,  \* psq[3][7] = 16445820069092145103
    <<26960, 22997, 65510, 64447>>,  \* psq[3][8] = 7588664147775519679
    <<45817, 59419, 33050, 29040>>,  \* psq[3][9] = 12896594212779880816
    <<53062, 59513, 50783, 57517>>,  \* psq[3][10] = 14935880823937687725
    <<47609, 31960, 42199, 34197>>,  \* psq[3][11] = 13400879436137989525
    <<49194, 20845, 47278, 5199>>,  \* psq[3][12] = 13846969535995712591
    <<44355, 22150, 64260, 59884>>,  \* psq[3][13] = 12484917729738156524
    <<63531, 47983, 13610, 14688>>,  \* psq[3][14] = 17882592831712409952
    <<59108, 11717, 32045, 62432>>,  \* psq[3][15] = 16637473249645425632
    <<53639, 43580, 56301, 54704>>,  \* psq[3][16] = 15098223454147433904
    <<62638, 51089, 17873, 24494>>,  \* psq[3][17] = 17631249017957605294
    <<44700, 16330, 28808, 65167>>,  \* psq[3][18] = 12582001597670293135
    <<63603, 1900, 28869, 57912>>,  \* psq[3][19] = 17902661106057732664
    <<36500, 52175, 48687, 36533>>,  \* psq[3][20] = 10274060743048400565
    <<42653, 48097, 58911, 5249>>,  \* psq[3][21] = 12005958760542442625
    <<22470, 44108, 55380, 31335>>,  \* psq[3][22] = 6324932172735347303
    <<61079, 28044, 45966, 52039>>,  \* psq[3][23] = 17192330553585486663
    <<33476, 50265, 7786, 13849>>,  \* psq[3][24] = 9422872207407330841
    <<11287, 53531, 64509, 5439>>,  \* psq[3][25] = 3177237980255163711
    <<53283, 44920, 37903, 45022>>,  \* psq[3][26] = 14998024116488875998
    <<2507, 31627, 13877, 49400>>,  \* psq[3][27] = 705793604453777656
    <<40243, 39829, 1886, 24353>>,  \* psq[3][28] = 11327568552142987041
    <<24973, 21890, 39961, 25683>>,  \* psq[3][29] = 7029368612848231507
    <<39303, 11634, 43595, 23473>>,  \* psq[3][30] = 11062860980165499825
    <<10305, 6723, 40186, 45103>>,  \* psq[3][31] = 2900628512702115887
    <<1095, 50328, 3537, 35851>>,  \* psq[3][32] = 308431256844078091
    <<2674, 32216, 8249, 29095>>,  \* psq[3][33] = 752802454931337639
    <<19812, 382, 41604, 17656>>,  \* psq[3][34] = 5576583881995601144
    <<31027, 62863, 904, 7056>>,  \* psq[3][35] = 8733594096989903760
    <<1032, 59447, 16119, 5882>>,  \* psq[3][36] = 290737499942622970
    <<31948, 50761, 59696, 48045>>,  \* psq[3][37] = 8992780576699235245
    <<37039, 15168, 17385, 35228>>,  \* psq[3][38] = 10425616809589311900
    <<19517, 29685, 64289, 11449>>,  \* psq[3][39] = 5493674620779310265
    <<44725, 31435, 58659, 29307>>,  \* psq[3][40] = 12589103349525344891
    <<52785, 45498, 17119, 42476>>,  \* psq[3][41] = 14857852059215963628
    <<47945, 54404, 22572, 11008>>,  \* psq[3][42] = 13495551423272463104
    <<24670, 15970, 35856, 47862>>,  \* psq[3][43] = 6944056268429507318
    <<14171, 14137, 6857, 62435>>,  \* psq[3][44] = 3988842613368812515
    <<52636, 13759, 10358, 17744>>,  \* psq[3][45] = 14815775969275954512
    <<63482, 4144, 34241, 34887>>,  \* psq[3][46] = 17868612272134391879
    <<29973, 13188, 2112, 3081>>,  \* psq[3][47] = 8436706119115607049
    <<26843, 40704, 3226, 57965>>,  \* psq[3][48] = 7555807622404432493
    <<32487, 50766, 19008, 47809>>,  \* psq[3][49] = 9144495607954586305
    <<24139, 64390, 17205, 55579>>,  \* psq[3][50] = 6794801016890317083
    <<21574, 3984, 16229, 14396>>,  \* psq[3][51] = 6072558259768997948
    <<38872, 9348, 53343, 5050>>,  \* psq[3][52] = 10941535447546794938
    <<49892, 35591, 23749, 60992>>,  \* psq[3][53] = 14043502401785556544
    <<29709, 65509, 21350, 28940>>,  \* psq[3][54] = 8362621443508695308
    <<63013, 60116, 22731, 21347>>,  \* psq[3][55] = 17736840905212253027
    <<9709, 44392, 2113, 8326>>,  \* psq[3][56] = 2733031211210449030
    <<15455, 39567, 27472, 40567>>,  \* psq[3][57] = 4350365705834634871
    <<3909, 61590, 15778, 34371>>,  \* psq[3][58] = 1100550212031776323
    <<61927, 14670, 5851, 44349>>,  \* psq[3][59] = 17430963890314521917
    <<26538, 65448, 21386, 57409>>,  \* psq[3][60] = 7470064030368587841
    <<47560, 14934, 39979, 8292>>,  \* psq[3][61] = 13387014036020469860
    <<25149, 2350, 26213, 15880>>,  \* psq[3][62] = 7078824284187344392
    <<43741, 2480, 13538, 7678>>  \* psq[3][63] = 12312007608706932222
  >>,
  <<
    <<13595, 15542, 64010, 64279>>,  \* psq[4][0] = 3826719064958106391
    <<62458, 20567, 38270, 40735>>,  \* psq[4][1] = 17580452432494632735
    <<15535, 24467, 4455, 50084>>,  \* psq[4][2] = 4372818848456885156
    <<73, 53649, 24536, 60447>>,  \* psq[4][3] = 20778095608392735
    <<33813, 46285, 46201, 30557>>,  \* psq[4][4] = 9517712183106565981
    <<59588, 10528, 34500, 4188>>,  \* psq[4][5] = 16772576131911258204
    <<43196, 59310, 57635, 39805>>,  \* psq[4][6] = 12158847832281029501
    <<65081, 45098, 18642, 43488>>,  \* psq[4][7] = 18318866654963083744
    <<51001, 65117, 52548, 22483>>,  \* psq[4][8] = 14355784966049388499
    <<5123, 56207, 45905, 39056>>,  \* psq[4][9] = 1442237715923966096
    <<59570, 36274, 16368, 37651>>,  \* psq[4][10] = 16767620159370203923
    <<47965, 16441, 26576, 31127>>,  \* psq[4][11] = 13501017873225644439
    <<44105, 1654, 830, 65397>>,  \* psq[4][12] = 12414460951753850741
    <<5792, 20387, 3355, 63955>>,  \* psq[4][13] = 1630390626826320339
    <<39282, 6112, 38279, 10604>>,  \* psq[4][14] = 11056926288496765292
    <<62225, 32295, 13584, 1252>>,  \* psq[4][15] = 17514919132679636196
    <<23935, 5200, 59080, 18980>>,  \* psq[4][16] = 6737125905271376420
    <<11213, 44582, 51265, 54713>>,  \* psq[4][17] = 3156370395448333753
    <<26191, 61435, 10312, 11148>>,  \* psq[4][18] = 7372374977020439436
    <<18750, 53016, 12598, 25187>>,  \* psq[4][19] = 5277883516136612451
    <<58779, 32342, 3169, 21130>>,  \* psq[4][20] = 16544956564115640970
    <<51269, 44004, 41419, 42901>>,  \* psq[4][21] = 14431129579433994133
    <<38, 18630, 48972, 27048>>,  \* psq[4][22] = 10776067565185448
    <<54128, 771, 51323, 2345>>,  \* psq[4][23] = 15235680854177679657
    <<45359, 47547, 6063, 64041>>,  \* psq[4][24] = 12767627681826077225
    <<4706, 12539, 19510, 30346>>,  \* psq[4][25] = 1324675096273909386
    <<12279, 54005, 17220, 12291>>,  \* psq[4][26] = 3456463189867507715
    <<32670, 41130, 21917, 34972>>,  \* psq[4][27] = 9195964142578403484
    <<37756, 17303, 45219, 4569>>,  \* psq[4][28] = 10627443539470127577
    <<25166, 13190, 51389, 13872>>,  \* psq[4][29] = 7083655917886846512
    <<52347, 10295, 38300, 43594>>,  \* psq[4][30] = 14734414825071094346
    <<31384, 38322, 49267, 62229>>,  \* psq[4][31] = 8833975264052769557
    <<10534, 40757, 58623, 1985>>,  \* psq[4][32] = 2965232458494052289
    <<45426, 19765, 14857, 18896>>,  \* psq[4][33] = 12786367183060552144
    <<22612, 9229, 21, 25496>>,  \* psq[4][34] = 6364751811635930008
    <<43715, 3686, 559, 19666>>,  \* psq[4][35] = 12304694438192434386
    <<15703, 13120, 52676, 38297>>,  \* psq[4][36] = 4420057912710567321
    <<46618, 6092, 7560, 14174>>,  \* psq[4][37] = 13121826629733594974
    <<11707, 45827, 17575, 18176>>,  \* psq[4][38] = 3295424378969736960
    <<58774, 7934, 12196, 24664>>,  \* psq[4][39] = 16543444358261923928
    <<48550, 20169, 13980, 6581>>,  \* psq[4][40] = 13665696745413941685
    <<12738, 44188, 61488, 39881>>,  \* psq[4][41] = 3585618043384929225
    <<52432, 29461, 46363, 9692>>,  \* psq[4][42] = 14758422515963078108
    <<19341, 41495, 28029, 57233>>,  \* psq[4][43] = 5444185746065710993
    <<22090, 5794, 19623, 12902>>,  \* psq[4][44] = 6217807121864929894
    <<27061, 29676, 44367, 62566>>,  \* psq[4][45] = 7617121805124236390
    <<7731, 58085, 1266, 43715>>,  \* psq[4][46] = 2176332518208481987
    <<5100, 22113, 132, 13826>>,  \* psq[4][47] = 1435617355844826626
    <<63583, 62506, 62522, 47331>>,  \* psq[4][48] = 17897291909516933347
    <<61925, 63989, 44206, 49919>>,  \* psq[4][49] = 17430612766366810879
    <<49190, 35641, 49497, 65129>>,  \* psq[4][50] = 13845907184570465897
    <<12194, 364, 33916, 12952>>,  \* psq[4][51] = 3432307431600566936
    <<8996, 24370, 5026, 3056>>,  \* psq[4][52] = 2532253559171451888
    <<41364, 46054, 5936, 13182>>,  \* psq[4][53] = 11643128737472459646
    <<48338, 54611, 36757, 6454>>,  \* psq[4][54] = 13606171979107604790
    <<35571, 37989, 7065, 9110>>,  \* psq[4][55] = 10012509558550373270
    <<19851, 34052, 4284, 14110>>,  \* psq[4][56] = 5587706015190365982
    <<64621, 8430, 34602, 6008>>,  \* psq[4][57] = 18189230678861289336
    <<20027, 51100, 44261, 52761>>,  \* psq[4][58] = 5637318834313874969
    <<16797, 55218, 28661, 53137>>,  \* psq[4][59] = 4728172345191419793
    <<47205, 17086, 24054, 25449>>,  \* psq[4][60] = 13287099661014164329
    <<30111, 63774, 20618, 5786>>,  \* psq[4][61] = 8475766932330124954
    <<9881, 13598, 34975, 20130>>,  \* psq[4][62] = 2781312650135424674
    <<37489, 18520, 17914, 59025>>  \* psq[4][63] = 10552294945874175633
  >>,
  <<
    <<50150, 52162, 54669, 21730>>,  \* psq[5][0] = 14116194119706301666
    <<3229, 25974, 20070, 10755>>,  \* psq[5][1] = 908994258594572803
    <<13625, 36081, 32597, 58694>>,  \* psq[5][2] = 3835251526534030662
    <<13865, 36233, 38127, 30767>>,  \* psq[5][3] = 3902806174142003247
    <<29857, 26726, 16784, 24850>>,  \* psq[5][4] = 8404113168045990162
    <<37678, 9923, 7722, 33820>>,  \* psq[5][5] = 10605456791970677788
    <<29742, 22393, 32384, 19300>>,  \* psq[5][6] = 8371724936653327204
    <<36057, 28420, 51515, 52550>>,  \* psq[5][7] = 10149265301602815302
    <<36522, 31263, 45415, 9582>>,  \* psq[5][8] = 10280163375965480302
    <<45753, 31188, 33427, 52946>>,  \* psq[5][9] = 12878458563073396434
    <<5258, 64635, 6868, 41698>>,  \* psq[5][10] = 1480273033205949154
    <<54785, 7610, 20261, 26443>>,  \* psq[5][11] = 15420639285122262859
    <<56987, 4435, 49442, 46217>>,  \* psq[5][12] = 16040433549230388361
    <<38687, 5286, 5566, 41864>>,  \* psq[5][13] = 10889445127567090568
    <<25419, 8043, 2874, 64344>>,  \* psq[5][14] = 7154846977618541400
    <<54442, 48147, 25787, 3>>,  \* psq[5][15] = 15324267473561911299
    <<32411, 36984, 10493, 57727>>,  \* psq[5][16] = 9123044315927273855
    <<64582, 41601, 1934, 47611>>,  \* psq[5][17] = 18178395620988860923
    <<49517, 6813, 54803, 16147>>,  \* psq[5][18] = 13937825686985326355
    <<22057, 34155, 12406, 52792>>,  \* psq[5][19] = 6208640256728026680
    <<63250, 14415, 10684, 25885>>,  \* psq[5][20] = 17803354189602776349
    <<29020, 14566, 50702, 56037>>,  \* psq[5][21] = 8168466387959732965
    <<16866, 7305, 61965, 60477>>,  \* psq[5][22] = 4747388335999020093
    <<28694, 58362, 48198, 30933>>,  \* psq[5][23] = 8076893647775627477
    <<480, 57712, 38209, 12662>>,  \* psq[5][24] = 135355862477779318
    <<48768, 11436, 39719, 74>>,  \* psq[5][25] = 13727020784074293322
    <<58516, 49390, 33475, 49672>>,  \* psq[5][26] = 16471001867829363208
    <<14014, 60079, 9461, 20381>>,  \* psq[5][27] = 3944848361583366045
    <<21862, 53338, 18171, 25889>>,  \* psq[5][28] = 6153835027004876065
    <<62318, 22434, 29991, 24887>>,  \* psq[5][29] = 17541053953916494135
    <<2950, 21294, 13209, 31051>>,  \* psq[5][30] = 830442639195732299
    <<20278, 2347, 48344, 53060>>,  \* psq[5][31] = 5707759661195251524
    <<59493, 31990, 60036, 6425>>,  \* psq[5][32] = 16745928189385382169
    <<49218, 55191, 39322, 4136>>,  \* psq[5][33] = 13853872449862111272
    <<38238, 55009, 37574, 13352>>,  \* psq[5][34] = 10763276423780512808
    <<1878, 32263, 52592, 26285>>,  \* psq[5][35] = 528748578239178413
    <<4246, 52140, 38620, 5341>>,  \* psq[5][36] = 1195366693239264477
    <<57102, 6884, 26387, 53518>>,  \* psq[5][37] = 16072813688416096526
    <<33437, 46550, 60943, 45824>>,  \* psq[5][38] = 9411878730995839744
    <<50629, 14815, 61369, 48468>>,  \* psq[5][39] = 14250860229846220116
    <<12047, 42737, 24962, 55876>>,  \* psq[5][40] = 3391112600086567492
    <<40087, 64442, 158, 20920>>,  \* psq[5][41] = 11283764167692931512
    <<5941, 1343, 42698, 43802>>,  \* psq[5][42] = 1672248607577385754
    <<7568, 19584, 52266, 3535>>,  \* psq[5][43] = 2130286739811077583
    <<65056, 21298, 40372, 32803>>,  \* psq[5][44] = 18311727561747759139
    <<3462, 27346, 39449, 45572>>,  \* psq[5][45] = 974583822133342724
    <<17980, 45639, 63053, 15206>>,  \* psq[5][46] = 5061116103402273638
    <<11108, 53942, 7999, 46202>>,  \* psq[5][47] = 3126855720952116346
    <<2056, 36879, 54384, 36863>>,  \* psq[5][48] = 578870949780164607
    <<13417, 53181, 53695, 40679>>,  \* psq[5][49] = 3776778176701636327
    <<50497, 35850, 48097, 42454>>,  \* psq[5][50] = 14213795876687685078
    <<19944, 10055, 39987, 36370>>,  \* psq[5][51] = 5613780124034108946
    <<21564, 3462, 16892, 33972>>,  \* psq[5][52] = 6069741268072432820
    <<31596, 36784, 4382, 48386>>,  \* psq[5][53] = 8893641350514130178
    <<54178, 47914, 13518, 7492>>,  \* psq[5][54] = 15249957078178864452
    <<64277, 50303, 26474, 47063>>,  \* psq[5][55] = 18092583129505773527
    <<40479, 18126, 37526, 47635>>,  \* psq[5][56] = 11393903435307203091
    <<28846, 54370, 4475, 41124>>,  \* psq[5][57] = 8119660695860781220
    <<48907, 7861, 50759, 34356>>,  \* psq[5][58] = 13766130452052543028
    <<25212, 7511, 3093, 10229>>,  \* psq[5][59] = 7096579372531132405
    <<26499, 51511, 20609, 35398>>,  \* psq[5][60] = 7459026647266724422
    <<20952, 35671, 39283, 33665>>,  \* psq[5][61] = 5897616920394564481
    <<14787, 59945, 59452, 24634>>,  \* psq[5][62] = 4162427946331299898
    <<8980, 33503, 12173, 22029>>  \* psq[5][63] = 2527789185948800525
  >>,
  <<
    <<61429, 61106, 41650, 2866>>,  \* psq[6][0] = 17290988795360054066
    <<18619, 28724, 219, 37061>>,  \* psq[6][1] = 5240905960030703813
    <<44526, 644, 2279, 58344>>,  \* psq[6][2] = 12532957579127022568
    <<26010, 11803, 22979, 7986>>,  \* psq[6][3] = 7321214839249116978
    <<61064, 33190, 15149, 25269>>,  \* psq[6][4] = 17188130528816882357
    <<48493, 21889, 39067, 56712>>,  \* psq[6][5] = 13649660060729335176
    <<27987, 7133, 8761, 38137>>,  \* psq[6][6] = 7877670809777050873
    <<30564, 38311, 54080, 13411>>,  \* psq[6][7] = 8603165736220767331
    <<13256, 41372, 19548, 50334>>,  \* psq[6][8] = 3731409983944574110
    <<50844, 64749, 65095, 51749>>,  \* psq[6][9] = 14311591814980160037
    <<59399, 7674, 38080, 16703>>,  \* psq[6][10] = 16719365103710912831
    <<55582, 27761, 42152, 42358>>,  \* psq[6][11] = 15645061390881301878
    <<54404, 55264, 38578, 54487>>,  \* psq[6][12] = 15313601992567477463
    <<1983, 63396, 41860, 55451>>,  \* psq[6][13] = 558437165307320475
    <<35909, 24961, 35066, 3822>>,  \* psq[6][14] = 10107592147679710958
    <<771, 9729, 9527, 49241>>,  \* psq[6][15] = 217058993405149273
    <<41154, 8489, 14781, 58258>>,  \* psq[6][16] = 11583857652496458642
    <<45521, 57065, 20160, 25866>>,  \* psq[6][17] = 12813267508475749642
    <<45479, 61168, 63553, 22543>>,  \* psq[6][18] = 12801463184548517903
    <<36256, 11385, 35982, 30644>>,  \* psq[6][19] = 10205205656182355892
    <<42666, 24773, 23845, 37133>>,  \* psq[6][20] = 12009517757124415757
    <<41606, 40207, 15484, 34358>>,  \* psq[6][21] = 11711220569788417590
    <<2136, 64267, 7140, 47431>>,  \* psq[6][22] = 601506575385147719
    <<8540, 1000, 36626, 43917>>,  \* psq[6][23] = 2403800598476663693
    <<11316, 23831, 30257, 28642>>,  \* psq[6][24] = 3185273191806365666
    <<57949, 44530, 29058, 60301>>,  \* psq[6][25] = 16311384682203900813
    <<7630, 19542, 53256, 13519>>,  \* psq[6][26] = 2147738008043402447
    <<41867, 32632, 23365, 20975>>,  \* psq[6][27] = 11784653004849107439
    <<40371, 64338, 9753, 28782>>,  \* psq[6][28] = 11363702615030984814
    <<15844, 30573, 1852, 4681>>,  \* psq[6][29] = 4459820841160151625
    <<61244, 46966, 5083, 45178>>,  \* psq[6][30] = 17238855191434604666
    <<58737, 26057, 28814, 28251>>,  \* psq[6][31] = 16533107622905015899
    <<44694, 45281, 18525, 24826>>,  \* psq[6][32] = 12580437090734268666
    <<31982, 24544, 15088, 803>>,  \* psq[6][33] = 9002238121826321187
    <<25614, 6282, 42933, 11844>>,  \* psq[6][34] = 7209727037264965188
    <<54037, 56024, 60884, 59784>>,  \* psq[6][35] = 15210303941751662984
    <<21165, 37938, 38485, 53730>>,  \* psq[6][36] = 5957580827072516578
    <<57120, 28244, 39410, 64927>>,  \* psq[6][37] = 16077971979351817631
    <<26474, 38872, 56579, 28099>>,  \* psq[6][38] = 7451935491114626499
    <<50603, 63812, 27012, 22787>>,  \* psq[6][39] = 14243752318712699139
    <<45254, 6100, 22564, 62657>>,  \* psq[6][40] = 12737894796843349185
    <<4803, 16899, 38572, 27896>>,  \* psq[6][41] = 1351996896321498360
    <<15616, 6097, 25971, 13382>>,  \* psq[6][42] = 4395539424431256646
    <<52000, 52996, 26519, 25296>>,  \* psq[6][43] = 14636926406778905296
    <<37791, 33443, 57264, 10711>>,  \* psq[6][44] = 10637364485216545239
    <<16732, 60762, 25741, 50386>>,  \* psq[6][45] = 4709900282812548306
    <<52237, 42554, 64986, 57961>>,  \* psq[6][46] = 14703591130731831913
    <<5245, 7337, 10159, 59541>>,  \* psq[6][47] = 1476367765688281237
    <<14615, 36773, 57188, 10145>>,  \* psq[6][48] = 4113914727206496161
    <<28656, 23960, 52798, 2419>>,  \* psq[6][49] = 8066049843497142643
    <<27745, 8890, 22131, 41194>>,  \* psq[6][50] = 7809561412546830570
    <<17335, 39585, 24802, 47602>>,  \* psq[6][51] = 4879538739185105394
    <<33743, 63541, 17444, 41328>>,  \* psq[6][52] = 9498083046807871856
    <<62383, 58785, 17661, 47439>>,  \* psq[6][53] = 17559505952950827343
    <<41791, 62167, 12496, 38447>>,  \* psq[6][54] = 11763387757765891631
    <<35722, 43441, 43560, 276>>,  \* psq[6][55] = 10055035698587107604
    <<45633, 43551, 31529, 15142>>,  \* psq[6][56] = 12844734664424373030
    <<1175, 60174, 18476, 6007>>,  \* psq[6][57] = 330991544207939447
    <<30229, 5875, 30172, 25327>>,  \* psq[6][58] = 8508732305896661743
    <<39625, 29108, 48157, 41903>>,  \* psq[6][59] = 11153570973223855023
    <<36372, 57746, 32757, 39861>>,  \* psq[6][60] = 10238055872248257461
    <<6299, 62880, 48002, 42543>>,  \* psq[6][61] = 1773280948989896239
    <<29490, 31749, 52016, 2467>>,  \* psq[6][62] = 8300833427522849187
    <<38485, 50056, 364, 16354>>  \* psq[6][63] = 10832779467616436194
  >>,
  <<>>,  \* psq[7] is never assigned
  <<>>,  \* psq[8] is never assigned
  <<
    <<41857, 21221, 31020, 16861>>,  \* psq[9][0] = 11781789245711860189
    <<9762, 28867, 29555, 177>>,  \* psq[9][1] = 2747882707407274161
    <<13233, 2095, 61640, 58161>>,  \* psq[9][2] = 3724767368808293169
    <<36586, 31796, 44462, 39533>>,  \* psq[9][3] = 10298180063630105197
    <<38179, 1285, 50283, 39485>>,  \* psq[9][4] = 10746438658164496957
    <<56975, 848, 1151, 47014>>,  \* psq[9][5] = 16037040440297371558
    <<62485, 37612, 2406, 9760>>,  \* psq[9][6] = 17588125462232966688
    <<24445, 43662, 29296, 35718>>,  \* psq[9][7] = 6880843334474042246
    <<1990, 65149, 23062, 38436>>,  \* psq[9][8] = 560415017990002212
    <<23541, 44641, 23763, 48933>>,  \* psq[9][9] = 6626394159937994533
    <<9486, 60930, 34045, 2384>>,  \* psq[9][10] = 2670333323665803600
    <<15207, 15924, 38009, 52206>>,  \* psq[9][11] = 4280458366389177326
    <<5215, 20179, 4883, 49092>>,  \* psq[9][12] = 1467978672011198404
    <<27072, 9973, 12995, 54323>>,  \* psq[9][13] = 7620133404071416883
    <<47430, 2141, 39574, 56050>>,  \* psq[9][14] = 13350367343504972530
    <<36018, 61704, 40933, 51133>>,  \* psq[9][15] = 10138430730509076413
    <<24108, 36122, 45469, 46271>>,  \* psq[9][16] = 6785953884329063615
    <<14235, 25012, 40245, 9696>>,  \* psq[9][17] = 4006903721835701728
    <<62276, 9257, 9557, 39961>>,  \* psq[9][18] = 17529175408771439641
    <<8021, 36805, 60030, 47550>>,  \* psq[9][19] = 2257868868401674686
    <<58088, 62354, 55811, 36840>>,  \* psq[9][20] = 16350586259217027048
    <<45448, 45371, 26888, 27817>>,  \* psq[9][21] = 12792669610269240489
    <<54873, 13158, 13805, 28276>>,  \* psq[9][22] = 15445432911128260212
    <<13610, 10553, 35253, 11229>>,  \* psq[9][23] = 3830919760132254685
    <<62041, 35003, 2837, 51054>>,  \* psq[9][24] = 17463139367032047470
    <<53298, 49562, 1540, 55369>>,  \* psq[9][25] = 15002266175994648649
    <<62813, 52754, 3675, 28890>>,  \* psq[9][26] = 17680514289072042202
    <<1288, 51613, 41353, 34045>>,  \* psq[9][27] = 362761448860517629
    <<9310, 43027, 59663, 40831>>,  \* psq[9][28] = 2620716836644167551
    <<38642, 16420, 59904, 35628>>,  \* psq[9][29] = 10876826577342073644
    <<52241, 23638, 12602, 40297>>,  \* psq[9][30] = 14704635783604247913
    <<29737, 20283, 1704, 33597>>,  \* psq[9][31] = 8370308497378149181
    <<60048, 44161, 23365, 32373>>,  \* psq[9][32] = 16902199073103511157
    <<16740, 37159, 60188, 19689>>,  \* psq[9][33] = 4712050710770633961
    <<8296, 37430, 58280, 34590>>,  \* psq[9][34] = 2335277171236964126
    <<54904, 53208, 61747, 8310>>,  \* psq[9][35] = 15454330651988402294
    <<21456, 16716, 10181, 48782>>,  \* psq[9][36] = 6039398895644425870
    <<18939, 18771, 40767, 16401>>,  \* psq[9][37] = 5330935207425949713
    <<24315, 32601, 14041, 12492>>,  \* psq[9][38] = 6844204079868621004
    <<53356, 59292, 20192, 3235>>,  \* psq[9][39] = 15018633515897982115
    <<20854, 2029, 935, 22729>>,  \* psq[9][40] = 5869887878873962697
    <<34175, 3410, 57646, 57248>>,  \* psq[9][41] = 9619421978703093664
    <<25100, 4027, 11630, 64600>>,  \* psq[9][42] = 7065039212033014872
    <<50040, 3138, 9536, 31513>>,  \* psq[9][43] = 14085021312833583897
    <<63020, 20240, 63980, 54606>>,  \* psq[9][44] = 17738639966636660046
    <<64923, 25427, 43662, 25802>>,  \* psq[9][45] = 18274309123980813514
    <<56870, 36854, 56453, 38556>>,  \* psq[9][46] = 16007640215959475868
    <<15371, 56143, 13490, 32295>>,  \* psq[9][47] = 4326793000252505639
    <<41546, 7928, 23374, 55977>>,  \* psq[9][48] = 11694193434453531305
    <<56095, 13713, 20419, 4073>>,  \* psq[9][49] = 15789397716808962025
    <<30810, 6938, 10310, 36729>>,  \* psq[9][50] = 8672273831614123897
    <<21706, 51179, 10225, 28457>>,  \* psq[9][51] = 6109915657282875177
    <<22169, 47129, 14099, 58372>>,  \* psq[9][52] = 6240221177136276484
    <<62708, 6432, 37789, 12041>>,  \* psq[9][53] = 17650760467278016265
    <<48444, 2361, 54584, 62911>>,  \* psq[9][54] = 13635783915766085055
    <<61031, 64354, 19775, 10138>>,  \* psq[9][55] = 17178975703249397658
    <<2451, 47866, 18541, 49104>>,  \* psq[9][56] = 690100752037560272
    <<3007, 46327, 62977, 30994>>,  \* psq[9][57] = 846594232046156050
    <<40634, 36558, 14942, 2797>>,  \* psq[9][58] = 11437611220054444781
    <<3731, 53247, 20717, 60426>>,  \* psq[9][59] = 1050411833588837386
    <<37252, 19536, 38009, 7654>>,  \* psq[9][60] = 10485589741397417446
    <<45632, 34585, 18064, 883>>,  \* psq[9][61] = 12844414679888429939
    <<23061, 61518, 5859, 14067>>,  \* psq[9][62] = 6491358656106542835
    <<44677, 1719, 57367, 36264>>  \* psq[9][63] = 12575464921310399912
  >>,
  <<
    <<53020, 5123, 21721, 3469>>,  \* psq[10][0] = 14923825269739949453
    <<65281, 7953, 41598, 7605>>,  \* psq[10][1] = 18375002115249413557
    <<12161, 4507, 26181, 48885>>,  \* psq[10][2] = 3423036550911737589
    <<54181, 61884, 49974, 61338>>,  \* psq[10][3] = 15250861506191355802
    <<53404, 16641, 7304, 35508>>,  \* psq[10][4] = 15031961129285356212
    <<54836, 11824, 3648, 50192>>,  \* psq[10][5] = 15435012606837965840
    <<22398, 45966, 12867, 39569>>,  \* psq[10][6] = 6304673951675292305
    <<45423, 64910, 28382, 17215>>,  \* psq[10][7] = 12785716655315370815
    <<34848, 7761, 56266, 39825>>,  \* psq[10][8] = 9808873325341612945
    <<34759, 47513, 56455, 35699>>,  \* psq[10][9] = 9783992785966697331
    <<64441, 28278, 55097, 51954>>,  \* psq[10][10] = 18138650430907468530
    <<65481, 8021, 21736, 33783>>,  \* psq[10][11] = 18431297401347671031
    <<64475, 7089, 5689, 25569>>,  \* psq[10][12] = 18148129570815566817
    <<45107, 58714, 23551, 4841>>,  \* psq[10][13] = 12696743950740820713
    <<6589, 48099, 4539, 65114>>,  \* psq[10][14] = 1854845205476015706
    <<45708, 27772, 24384, 392>>,  \* psq[10][15] = 12865777516920439176
    <<55550, 52175, 16018, 61080>>,  \* psq[10][16] = 15636159047245426328
    <<61722, 48624, 32528, 13284>>,  \* psq[10][17] = 17373407353156678628
    <<8866, 64611, 2044, 57017>>,  \* psq[10][18] = 2495834645782650553
    <<39960, 4092, 3647, 47188>>,  \* psq[10][19] = 11247757644603045972
    <<60860, 42285, 44365, 2029>>,  \* psq[10][20] = 17130748698210142189
    <<40582, 34678, 18743, 991>>,  \* psq[10][21] = 11422966446976074719
    <<5666, 41626, 49773, 50190>>,  \* psq[10][22] = 1595016003613213710
    <<13855, 4915, 14391, 25854>>,  \* psq[10][23] = 3899856913033553150
    <<54961, 62377, 51873, 60718>>,  \* psq[10][24] = 15470414105568996654
    <<9139, 13808, 52089, 27926>>,  \* psq[10][25] = 2572459120480840982
    <<50762, 19856, 10895, 1633>>,  \* psq[10][26] = 14288318049370965601
    <<14333, 64231, 11547, 12476>>,  \* psq[10][27] = 4034656711994978492
    <<12858, 59837, 26878, 24699>>,  \* psq[10][28] = 3619462250265206907
    <<44638, 31724, 60233, 21503>>,  \* psq[10][29] = 12564616267900212223
    <<23319, 40514, 25003, 37807>>,  \* psq[10][30] = 6563888989859451823
    <<8718, 60245, 36934, 42450>>,  \* psq[10][31] = 2454157599688795602
    <<436, 8863, 33729, 42908>>,  \* psq[10][32] = 122761158351497116
    <<14630, 19923, 40222, 59905>>,  \* psq[10][33] = 4118064480546384385
    <<49117, 31741, 45737, 59882>>,  \* psq[10][34] = 13825342760651713002
    <<13350, 62388, 8517, 578>>,  \* psq[10][35] = 3757958894065091138
    <<11895, 48129, 31760, 53160>>,  \* psq[10][36] = 3348351562535718824
    <<39382, 3894, 6215, 54151>>,  \* psq[10][37] = 11085064257829065607
    <<17024, 27837, 48069, 21764>>,  \* psq[10][38] = 4791949565677098244
    <<59479, 2272, 18533, 40710>>,  \* psq[10][39] = 16741859899153424134
    <<48147, 12240, 58080, 38762>>,  \* psq[10][40] = 13552228277894027114
    <<64104, 28414, 42908, 28069>>,  \* psq[10][41] = 18043793947072687525
    <<64773, 36023, 18666, 32910>>,  \* psq[10][42] = 18232133385309552782
    <<60973, 39212, 12160, 28271>>,  \* psq[10][43] = 17162542170033385071
    <<63830, 40019, 14351, 32036>>,  \* psq[10][44] = 17966719644677930276
    <<14659, 54310, 17006, 42854>>,  \* psq[10][45] = 4126374944389900134
    <<27334, 44861, 54751, 6130>>,  \* psq[10][46] = 7694029693525104626
    <<27870, 20758, 40297, 58668>>,  \* psq[10][47] = 7844796758498075948
    <<53899, 23884, 25300, 31178>>,  \* psq[10][48] = 15171322352384637386
    <<17412, 56440, 62217, 9195>>,  \* psq[10][49] = 4901284706517591019
    <<41036, 1012, 41205, 35642>>,  \* psq[10][50] = 11550611493505829690
    <<30524, 3849, 37710, 1568>>,  \* psq[10][51] = 8591758722916550176
    <<23498, 42351, 15358, 17009>>,  \* psq[10][52] = 6614280899913466481
    <<55632, 64438, 47115, 31974>>,  \* psq[10][53] = 15659292666557594854
    <<29611, 21043, 58304, 11710>>,  \* psq[10][54] = 8334845918197067198
    <<50815, 45699, 24976, 46051>>,  \* psq[10][55] = 14303347218899317731
    <<64608, 34090, 45501, 60207>>,  \* psq[10][56] = 18185681713739197231
    <<35566, 4360, 29412, 39320>>,  \* psq[10][57] = 10010957749676186008
    <<21854, 54644, 27582, 34599>>,  \* psq[10][58] = 6151588837035247399
    <<56687, 6280, 56045, 30108>>,  \* psq[10][59] = 15955998980864570780
    <<52316, 37202, 26539, 9914>>,  \* psq[10][60] = 14725804664707294906
    <<32227, 3991, 34107, 172>>,  \* psq[10][61] = 9071111217904025772
    <<15164, 61616, 15926, 21720>>,  \* psq[10][62] = 4268551186589045976
    <<13455, 60508, 50587, 1175>>  \* psq[10][63] = 3787505694838293655
  >>,
  <<
    <<12305, 50386, 34357, 56287>>,  \* psq[11][0] = 3463765996898474975
    <<5041, 29939, 61181, 49815>>,  \* psq[11][1] = 1419043948633899671
    <<16833, 43654, 7623, 38240>>,  \* psq[11][2] = 4738255775972431200
    <<38655, 63279, 5492, 5078>>,  \* psq[11][3] = 10880687006345860054
    <<21614, 36494, 51319, 12406>>,  \* psq[11][4] = 6083956890523873398
    <<54709, 35688, 19738, 21401>>,  \* psq[11][5] = 15399367780949709721
    <<35803, 995, 59090, 38968>>,  \* psq[11][6] = 10077652868536637496
    <<16924, 21349, 23484, 5409>>,  \* psq[11][7] = 4763774200646997281
    <<7314, 2695, 502, 9935>>,  \* psq[11][8] = 2058719554631509711
    <<57714, 49074, 33513, 10673>>,  \* psq[11][9] = 16245257579300202929
    <<44583, 54825, 47835, 7021>>,  \* psq[11][10] = 12549234361408101229
    <<18232, 60547, 43103, 4394>>,  \* psq[11][11] = 5132111825598353706
    <<46934, 28259, 50479, 29695>>,  \* psq[11][12] = 13210867931726967807
    <<28597, 57735, 64464, 30078>>,  \* psq[11][13] = 8049587883156206974
    <<50479, 50157, 36848, 33142>>,  \* psq[11][14] = 14208790774466773366
    <<53307, 47185, 25461, 4230>>,  \* psq[11][15] = 15004789243215417478
    <<9610, 43584, 49493, 33901>>,  \* psq[11][16] = 2705161721287640173
    <<23472, 39822, 42819, 34186>>,  \* psq[11][17] = 6606951690346399114
    <<32112, 31127, 1183, 20586>>,  \* psq[11][18] = 9038858141657157738
    <<35045, 50553, 59576, 60559>>,  \* psq[11][19] = 9864507686211087503
    <<29040, 41550, 11276, 35328>>,  \* psq[11][20] = 8174211780307618304
    <<57057, 54404, 15997, 30983>>,  \* psq[11][21] = 16060351410629081351
    <<19486, 30315, 12003, 7221>>,  \* psq[11][22] = 5484951598904056885
    <<44255, 19658, 16893, 2223>>,  \* psq[11][23] = 12456759525904287919
    <<31687, 36096, 33720, 18516>>,  \* psq[11][24] = 8919252620379965524
    <<55070, 65353, 13779, 49704>>,  \* psq[11][25] = 15501107657356591656
    <<11521, 17690, 54480, 25986>>,  \* psq[11][26] = 3242949188225361282
    <<21053, 38530, 42195, 28695>>,  \* psq[11][27] = 5926058172544675863
    <<22755, 37265, 62411, 22650>>,  \* psq[11][28] = 6405123151097452666
    <<613, 5489, 17696, 64595>>,  \* psq[11][29] = 172567736958909523
    <<61434, 42339, 2181, 17165>>,  \* psq[11][30] = 17292315564005737229
    <<47834, 47648, 37141, 27329>>,  \* psq[11][31] = 13464278685013338817
    <<13095, 32395, 1081, 10526>>,  \* psq[11][32] = 3686053955562449182
    <<31466, 29196, 18287, 26181>>,  \* psq[11][33] = 8857017014241158725
    <<54789, 38002, 29894, 52515>>,  \* psq[11][34] = 15421895718306499875
    <<13556, 55522, 28305, 47966>>,  \* psq[11][35] = 3815913251318905694
    <<12195, 14231, 44768, 40358>>,  \* psq[11][36] = 3432648465599995302
    <<2907, 17003, 57411, 2361>>,  \* psq[11][37] = 818320788389300537
    <<14464, 61944, 23055, 27316>>,  \* psq[11][38] = 4071520112108071604
    <<47234, 64583, 12440, 1530>>,  \* psq[11][39] = 13295466432639272442
    <<8620, 60133, 16482, 62239>>,  \* psq[11][40] = 2426572569594491679
    <<35798, 14447, 50305, 14126>>,  \* psq[11][41] = 10076303268977391406
    <<31207, 47179, 28419, 39059>>,  \* psq[11][42] = 8784192232334006419
    <<10648, 8425, 26527, 2310>>,  \* psq[11][43] = 2997181738853009670
    <<56027, 46604, 47463, 8916>>,  \* psq[11][44] = 15770398685934330580
    <<46246, 40282, 20773, 62381>>,  \* psq[11][45] = 13017264784195056557
    <<15386, 583, 29699, 50309>>,  \* psq[11][46] = 4330776497582490757
    <<38847, 9352, 25105, 45698>>,  \* psq[11][47] = 10934498588458332802
    <<36793, 63053, 55751, 58965>>,  \* psq[11][48] = 10356579632341837397
    <<7454, 29465, 56551, 16687>>,  \* psq[11][49] = 2098241031318749487
    <<52542, 44280, 35404, 58052>>,  \* psq[11][50] = 14789448409803449028
    <<39973, 8085, 28916, 42014>>,  \* psq[11][51] = 11251433970760721438
    <<25664, 53620, 39403, 41565>>,  \* psq[11][52] = 7224004101031043677
    <<53429, 2005, 27363, 24645>>,  \* psq[11][53] = 15038935143876354117
    <<46950, 54274, 58735, 3469>>,  \* psq[11][54] = 13215483265469582733
    <<5195, 8412, 41237, 27031>>,  \* psq[11][55] = 1462298635979286935
    <<20461, 5813, 36427, 28203>>,  \* psq[11][56] = 5759284467508932139
    <<20470, 4081, 19033, 11841>>,  \* psq[11][57] = 5761810302276021825
    <<6916, 39902, 42192, 21542>>,  \* psq[11][58] = 1946852319481058342
    <<31190, 20513, 8390, 51425>>,  \* psq[11][59] = 8779292626819401953
    <<35457, 4080, 32931, 57475>>,  \* psq[11][60] = 9980275774854520963
    <<32038, 60716, 7862, 60357>>,  \* psq[11][61] = 9018156077605645253
    <<36151, 7238, 4365, 2930>>,  \* psq[11][62] = 10175632970326281074
    <<62777, 22444, 3242, 45580>>  \* psq[11][63] = 17670251009423356428
  >>,
  <<
    <<7274, 5607, 19528, 18456>>,  \* psq[12][0] = 2047473063754745880
    <<14670, 52339, 5575, 30387>>,  \* psq[12][1] = 4129462703004022451
    <<35635, 35842, 21607, 44931>>,  \* psq[12][2] = 10030514736718131075
    <<30045, 63278, 29922, 35884>>,  \* psq[12][3] = 8457187454173219884
    <<2401, 706, 62578, 5526>>,  \* psq[12][4] = 675824455430313366
    <<55858, 18451, 54773, 5724>>,  \* psq[12][5] = 15722708499135010396
    <<5031, 11504, 62192, 51396>>,  \* psq[12][6] = 1416150021210949828
    <<65159, 29249, 8, 28970>>,  \* psq[12][7] = 18340753630988628266
    <<15204, 3835, 46395, 16679>>,  \* psq[12][8] = 4279562020148953383
    <<26999, 40721, 64611, 13394>>,  \* psq[12][9] = 7599717795808621650
    <<30174, 37046, 9725, 42269>>,  \* psq[12][10] = 8493385059263161629
    <<19356, 33518, 7708, 45829>>,  \* psq[12][11] = 5448373608430482181
    <<28332, 58511, 10091, 58180>>,  \* psq[12][12] = 7975000343659144004
    <<13008, 4046, 46985, 60529>>,  \* psq[12][13] = 3661443877569162353
    <<61946, 43192, 42157, 56650>>,  \* psq[12][14] = 17436434418308603210
    <<27437, 54127, 48942, 24260>>,  \* psq[12][15] = 7723061412912586436
    <<44331, 47012, 27522, 51892>>,  \* psq[12][16] = 12478269109366344372
    <<18689, 9760, 38700, 59086>>,  \* psq[12][17] = 5260527761162561230
    <<13020, 963, 53141, 47288>>,  \* psq[12][18] = 3664808336308943032
    <<43508, 25458, 17048, 55954>>,  \* psq[12][19] = 12246522629121956498
    <<40576, 59506, 39838, 2446>>,  \* psq[12][20] = 11421384233946319246
    <<38053, 61737, 15841, 38700>>,  \* psq[12][21] = 10711232448204740396
    <<1399, 58170, 22002, 38891>>,  \* psq[12][22] = 394033332107778027
    <<5875, 47025, 45768, 212>>,  \* psq[12][23] = 1653867462011650260
    <<37709, 25136, 55, 45200>>,  \* psq[12][24] = 10614247855083729040
    <<12474, 20533, 60073, 61907>>,  \* psq[12][25] = 3511207051989217747
    <<52682, 5589, 25177, 11328>>,  \* psq[12][26] = 14828688729293007936
    <<45226, 58543, 9453, 55709>>,  \* psq[12][27] = 12730238737606105501
    <<32440, 26332, 8301, 64082>>,  \* psq[12][28] = 9131161340116597330
    <<37216, 11973, 29879, 29812>>,  \* psq[12][29] = 10475424158865388660
    <<43402, 48404, 56805, 30809>>,  \* psq[12][30] = 12216784836515690585
    <<44784, 33505, 31406, 3645>>,  \* psq[12][31] = 12605719261947498045
    <<195, 40112, 63534, 9377>>,  \* psq[12][32] = 55059904350528673
    <<20136, 55218, 24963, 54546>>,  \* psq[12][33] = 5668017292185949458
    <<18896, 22693, 8444, 64764>>,  \* psq[12][34] = 5318848626170854652
    <<20648, 62885, 440, 24831>>,  \* psq[12][35] = 5812165408168894719
    <<44183, 42420, 9899, 33354>>,  \* psq[12][36] = 12436591089168384586
    <<40700, 35520, 16915, 40773>>,  \* psq[12][37] = 11456184110470635333
    <<61656, 19261, 17077, 52121>>,  \* psq[12][38] = 17354703890556504985
    <<45544, 49325, 43837, 22487>>,  \* psq[12][39] = 12819708191444916183
    <<7290, 4026, 34216, 43755>>,  \* psq[12][40] = 2051969874001439467
    <<34646, 24356, 48579, 61050>>,  \* psq[12][41] = 9752086654524583546
    <<30549, 11984, 39819, 16641>>,  \* psq[12][42] = 8598830537031500033
    <<38382, 33827, 30581, 21340>>,  \* psq[12][43] = 10803717843971298140
    <<61768, 25148, 25977, 6739>>,  \* psq[12][44] = 17386254373003795027
    <<12399, 1258, 57331, 40789>>,  \* psq[12][45] = 3490013643061567317
    <<53170, 31760, 7164, 15790>>,  \* psq[12][46] = 14966160920336416174
    <<9649, 48279, 24082, 23462>>,  \* psq[12][47] = 2716159408585464742
    <<48686, 38758, 3717, 63019>>,  \* psq[12][48] = 13704057180721116715
    <<21813, 3132, 39355, 31270>>,  \* psq[12][49] = 6139827121406310950
    <<42794, 47696, 39270, 14211>>,  \* psq[12][50] = 12045645008689575811
    <<20888, 50662, 43043, 26835>>,  \* psq[12][51] = 5879666907986225363
    <<65128, 48095, 37503, 43630>>,  \* psq[12][52] = 18332108852121545326
    <<29496, 49040, 51693, 28729>>,  \* psq[12][53] = 8302596541641486393
    <<11856, 30953, 54963, 47333>>,  \* psq[12][54] = 3337300269606353125
    <<16488, 19670, 47558, 51904>>,  \* psq[12][55] = 4641043901128821440
    <<62359, 37240, 59185, 51000>>,  \* psq[12][56] = 17552658021160699704
    <<54162, 62730, 46673, 59750>>,  \* psq[12][57] = 15245517114959849830
    <<3193, 5735, 31335, 63914>>,  \* psq[12][58] = 898774234328201642
    <<47813, 47131, 21396, 27496>>,  \* psq[12][59] = 13458365488972458856
    <<62589, 26926, 2570, 57870>>,  \* psq[12][60] = 17617352963801145870
    <<44952, 41913, 15044, 33789>>,  \* psq[12][61] = 12653043169047643133
    <<14019, 13369, 10658, 33409>>,  \* psq[12][62] = 3946055118622982785
    <<279, 31676, 24891, 57303>>  \* psq[12][63] = 78667567517654999
  >>,
  <<
    <<26632, 24102, 56291, 44374>>,  \* psq[13][0] = 7496345100749090134
    <<39581, 18008, 10816, 4619>>,  \* psq[13][1] = 11141138397664383499
    <<35494, 43965, 11437, 32150>>,  \* psq[13][2] = 9990861652354760086
    <<21799, 41536, 13687, 16088>>,  \* psq[13][3] = 6136051413974204120
    <<51096, 1455, 5626, 20892>>,  \* psq[13][4] = 14382251659553821084
    <<43424, 16015, 47606, 2181>>,  \* psq[13][5] = 12222838175704680581
    <<33529, 39384, 9691, 1248>>,  \* psq[13][6] = 9437743647758681312
    <<18907, 24374, 32272, 24628>>,  \* psq[13][7] = 5321952072316248116
    <<33787, 64618, 19112, 61793>>,  \* psq[13][8] = 9510472571572253025
    <<49626, 60858, 42448, 5201>>,  \* psq[13][9] = 13968738580144591953
    <<32147, 36448, 29842, 57320>>,  \* psq[13][10] = 9048732621241245672
    <<25121, 13790, 23351, 63937>>,  \* psq[13][11] = 7070992119077796289
    <<26950, 55081, 52794, 4121>>,  \* psq[13][12] = 7585987196905721881
    <<45466, 15869, 53517, 13480>>,  \* psq[13][13] = 12797609451470009512
    <<49138, 12244, 62502, 33617>>,  \* psq[13][14] = 13831169997283951441
    <<49961, 43186, 51537, 47103>>,  \* psq[13][15] = 14062956797276305407
    <<25562, 25319, 58769, 56556>>,  \* psq[13][16] = 7195172102806297836
    <<48896, 31506, 60483, 1964>>,  \* psq[13][17] = 13763135782447679404
    <<31012, 17545, 2565, 28870>>,  \* psq[13][18] = 8729177333120200902
    <<29233, 36097, 58572, 61604>>,  \* psq[13][19] = 8228513033455726756
    <<20704, 53825, 31707, 29083>>,  \* psq[13][20] = 5827889096510108059
    <<5477, 41609, 28720, 35086>>,  \* psq[13][21] = 1541817158620711182
    <<63957, 53641, 22052, 8851>>,  \* psq[13][22] = 18002525473269359251
    <<25616, 20210, 8599, 15962>>,  \* psq[13][23] = 7210349805272776282
    <<24018, 64936, 50206, 46151>>,  \* psq[13][24] = 6760744891923215431
    <<5982, 53327, 23738, 34080>>,  \* psq[13][25] = 1684012349959865632
    <<19265, 10061, 49241, 49630>>,  \* psq[13][26] = 5422658641223860702
    <<21190, 40977, 29231, 29989>>,  \* psq[13][27] = 5964630753289401637
    <<57017, 16976, 19400, 59266>>,  \* psq[13][28] = 16048931659747747714
    <<46168, 54105, 19820, 44552>>,  \* psq[13][29] = 12995369105282084360
    <<7852, 19635, 64034, 13710>>,  \* psq[13][30] = 2210225853011473806
    <<47289, 28913, 20490, 4377>>,  \* psq[13][31] = 13310794355402477849
    <<15476, 59276, 50342, 16911>>,  \* psq[13][32] = 4356361331354780175
    <<38798, 63815, 56645, 11726>>,  \* psq[13][33] = 10920940233470324174
    <<15918, 38174, 27439, 3838>>,  \* psq[13][34] = 4480682637160025854
    <<42351, 40541, 14067, 40971>>,  \* psq[13][35] = 11920920861864075275
    <<63347, 29152, 58118, 34772>>,  \* psq[13][36] = 17830720560385394644
    <<62768, 44569, 48980, 39141>>,  \* psq[13][37] = 17667812763781863653
    <<30497, 25380, 2880, 28487>>,  \* psq[13][38] = 8584251371203620679
    <<35825, 20165, 4136, 22258>>,  \* psq[13][39] = 10083927648945854194
    <<53914, 64248, 40892, 16402>>,  \* psq[13][40] = 15175717840117055506
    <<12087, 46633, 31893, 46064>>,  \* psq[13][41] = 3402388332801799152
    <<63891, 8994, 16296, 55320>>,  \* psq[13][42] = 17983756367024412696
    <<48435, 65488, 2580, 51626>>,  \* psq[13][43] = 13633521765968038314
    <<64650, 62068, 58200, 8958>>,  \* psq[13][44] = 18197623828188242686
    <<25434, 27114, 42634, 57063>>,  \* psq[13][45] = 7159151014196207335
    <<22486, 17877, 33001, 13808>>,  \* psq[13][46] = 6329323109608928752
    <<16329, 33336, 57081, 32065>>,  \* psq[13][47] = 4596348075478973761
    <<6853, 22295, 7782, 2331>>,  \* psq[13][48] = 1929043772203993371
    <<10454, 56653, 10894, 21548>>,  \* psq[13][49] = 2942782730029388844
    <<62586, 33280, 58551, 36776>>,  \* psq[13][50] = 17616535832761962408
    <<52007, 17951, 2012, 44762>>,  \* psq[13][51] = 14638746212880920282
    <<836, 22108, 55240, 1368>>,  \* psq[13][52] = 235408037287298392
    <<55027, 11736, 59300, 49765>>,  \* psq[13][53] = 15488773953079788133
    <<51555, 58001, 55936, 54015>>,  \* psq[13][54] = 14511691540381881087
    <<17437, 37834, 64861, 62431>>,  \* psq[13][55] = 4908241668947178463
    <<28429, 63587, 17040, 43589>>,  \* psq[13][56] = 8002325218109467205
    <<1366, 46436, 270, 27425>>,  \* psq[13][57] = 384694259305835297
    <<15678, 13544, 61430, 57875>>,  \* psq[13][58] = 4413022859932656147
    <<57143, 43308, 38303, 49592>>,  \* psq[13][59] = 16084510603130945976
    <<27772, 14342, 9624, 7795>>,  \* psq[13][60] = 7817184652260023923
    <<40931, 25945, 3506, 57347>>,  \* psq[13][61] = 11521163704900182019
    <<37777, 45117, 12115, 27028>>,  \* psq[13][62] = 10633473972031941012
    <<24968, 59601, 56181, 13085>>  \* psq[13][63] = 7028123206539359005
  >>,
  <<
    <<43947, 34716, 54616, 24367>>,  \* psq[14][0] = 12370129909167185711
    <<64952, 42651, 50181, 11733>>,  \* psq[14][1] = 18282545875249343957
    <<41111, 44939, 39086, 22099>>,  \* psq[14][2] = 11571910781648655955
    <<42790, 11239, 64117, 55675>>,  \* psq[14][3] = 12044362528788437371
    <<55951, 35556, 50514, 28602>>,  \* psq[14][4] = 15748959137105604538
    <<44173, 17501, 51513, 37043>>,  \* psq[14][5] = 12433669315838447795
    <<12574, 17510, 20131, 31078>>,  \* psq[14][6] = 3539341563356477798
    <<29237, 35643, 30422, 57995>>,  \* psq[14][7] = 8229636981602574987
    <<64900, 45369, 55117, 41645>>,  \* psq[14][8] = 18267920850505015981
    <<64429, 8540, 52617, 34888>>,  \* psq[14][9] = 18135187956959905864
    <<35962, 161, 13984, 24573>>,  \* psq[14][10] = 10122403804874825725
    <<30473, 59013, 51525, 61043>>,  \* psq[14][11] = 8577640427585662579
    <<60210, 61392, 25210, 60609>>,  \* psq[14][12] = 16947872026033056961
    <<15983, 16792, 16277, 15576>>,  \* psq[14][13] = 4498886674923994328
    <<18155, 62397, 25724, 49545>>,  \* psq[14][14] = 5110446196942225801
    <<8681, 4099, 57575, 8887>>,  \* psq[14][15] = 2443501881669395127
    <<24567, 35566, 14069, 59359>>,  \* psq[14][16] = 6915148508579620831
    <<32523, 2853, 5122, 20239>>,  \* psq[14][17] = 9154422921438056207
    <<12711, 47119, 44359, 6447>>,  \* psq[14][18] = 3578030806440286511
    <<54412, 43203, 48648, 40612>>,  \* psq[14][19] = 15315801991440539300
    <<25120, 50154, 1143, 41216>>,  \* psq[14][20] = 7070866824836391168
    <<52643, 55328, 30712, 22583>>,  \* psq[14][21] = 14817924832942381111
    <<10663, 18299, 12916, 38235>>,  \* psq[14][22] = 3001446271118775643
    <<46187, 36774, 51562, 21628>>,  \* psq[14][23] = 13000642695841600636
    <<51054, 33528, 18648, 10793>>,  \* psq[14][24] = 14370567463871457833
    <<39186, 43364, 3170, 573>>,  \* psq[14][25] = 11030064684553339453
    <<50590, 35354, 30666, 48615>>,  \* psq[14][26] = 14239970918075645415
    <<33452, 16344, 48007, 60671>>,  \* psq[14][27] = 9415971121016597759
    <<23679, 46015, 65335, 36027>>,  \* psq[14][28] = 6665243610733579451
    <<45225, 41095, 59952, 58735>>,  \* psq[14][29] = 12729882327349519727
    <<452, 62597, 20626, 9887>>,  \* psq[14][30] = 127495542892799647
    <<21472, 56417, 25372, 64800>>,  \* psq[14][31] = 6044073010763988256
    <<46210, 24654, 42706, 43288>>,  \* psq[14][32] = 13007064564721953048
    <<49342, 29552, 9180, 57078>>,  \* psq[14][33] = 13888665226332397302
    <<48091, 17003, 36501, 37278>>,  \* psq[14][34] = 13536486134713258398
    <<58597, 17412, 13675, 39314>>,  \* psq[14][35] = 16493663995181111698
    <<7567, 53763, 34936, 29314>>,  \* psq[14][36] = 2130152061385863810
    <<19077, 56361, 49038, 4361>>,  \* psq[14][37] = 5369940202574713097
    <<17678, 45259, 6267, 51963>>,  \* psq[14][38] = 4976109024626592507
    <<62750, 38207, 8275, 20842>>,  \* psq[14][39] = 17662718886951473514
    <<36218, 33503, 60630, 62192>>,  \* psq[14][40] = 10194604604769366768
    <<33518, 39955, 10474, 63525>>,  \* psq[14][41] = 9434649875492567077
    <<32952, 42128, 56884, 58764>>,  \* psq[14][42] = 9275344374679790988
    <<49561, 49871, 28579, 50336>>,  \* psq[14][43] = 13950395516943844512
    <<16463, 22525, 5718, 17643>>,  \* psq[14][44] = 4634019286100624619
    <<62261, 31, 51506, 19124>>,  \* psq[14][45] = 17524913661501655732
    <<45328, 39644, 41921, 33065>>,  \* psq[14][46] = 12758868016771465513
    <<11109, 56402, 50228, 17093>>,  \* psq[14][47] = 3127147764315865797
    <<14072, 5319, 10775, 14674>>,  \* psq[14][48] = 3960938717909563730
    <<52828, 16430, 40179, 48198>>,  \* psq[14][49] = 14869830638616427590
    <<1084, 15546, 37751, 13203>>,  \* psq[14][50] = 305185646789997459
    <<14707, 1366, 36483, 12680>>,  \* psq[14][51] = 4139658351799906696
    <<968, 46395, 59371, 47348>>,  \* psq[14][52] = 272667046354598132
    <<55497, 59981, 48096, 51898>>,  \* psq[14][53] = 15621274402096728762
    <<58561, 9783, 6282, 32559>>,  \* psq[14][54] = 16483498129229512495
    <<46019, 39977, 30763, 34504>>,  \* psq[14][55] = 12953368655171389128
    <<37936, 158, 62217, 9833>>,  \* psq[14][56] = 10678035399177741929
    <<64125, 16156, 49882, 58382>>,  \* psq[14][57] = 18049652274331575310
    <<28333, 11762, 27838, 61995>>,  \* psq[14][58] = 7975081034372805163
    <<37382, 115, 48505, 16517>>,  \* psq[14][59] = 10522098076497821829
    <<44786, 51547, 55725, 22662>>,  \* psq[14][60] = 12606359703294662790
    <<49471, 1986, 28853, 51918>>,  \* psq[14][61] = 13924857104548874958
    <<23329, 56706, 4711, 60025>>,  \* psq[14][62] = 6566773282407180921
    <<12265, 42197, 43661, 17398>>  \* psq[14][63] = 3452471826952569846
  >>
  >>

ZobristEnpassantWords ==
  <<
    <<32086, 54872, 10570, 39304>>,  \* enpassant[0] = 9031641776876329352
    <<43443, 61613, 16489, 48869>>,  \* enpassant[1] = 12228382040141709029
    <<8861, 17206, 10995, 50839>>,  \* enpassant[2] = 2494223668561036951
    <<27887, 15123, 7541, 56386>>,  \* enpassant[3] = 7849557628814744642
    <<56845, 29149, 2116, 44290>>,  \* enpassant[4] = 16000570245257669890
    <<59026, 14567, 26308, 19277>>,  \* enpassant[5] = 16614404541835922253
    <<63193, 12460, 19401, 22605>>,  \* enpassant[6] = 17787301719840479309
    <<22636, 56001, 36801, 19959>>  \* enpassant[7] = 6371708097697762807
  >>

ZobristCastlingWords ==
  <<
    <<26600, 24132, 41160, 3993>>,  \* castling[1] = 7487338029351702425
    <<36019, 46231, 15829, 55294>>,  \* castling[2] = 10138645747811604478
    <<60251, 60115, 40221, 55399>>,  \* castling[3] = 16959407016388712551
    <<58023, 44335, 27281, 29364>>,  \* castling[4] = 16332212992845378228
    <<34127, 62315, 51801, 32045>>,  \* castling[5] = 9606164174486469933
    <<28180, 6584, 22340, 42314>>,  \* castling[6] = 7931993123235079498
    <<2556, 18428, 63372, 43731>>,  \* castling[7] = 719529192282958547
    <<24143, 52045, 52965, 34243>>,  \* castling[8] = 6795873897769436611
    <<14759, 38153, 28205, 35418>>,  \* castling[9] = 4154453049008294490
    <<54012, 32730, 62256, 21053>>,  \* castling[10] = 15203167020455580221
    <<46356, 8606, 21496, 23972>>,  \* castling[11] = 13048090984296504740
    <<48360, 26210, 42100, 63351>>,  \* castling[12] = 13612242447579281271
    <<56064, 14374, 1212, 63726>>,  \* castling[13] = 15780674830245624046
    <<12379, 54005, 39329, 8329>>,  \* castling[14] = 3484610688987504777
    <<22451, 36017, 14697, 12048>>  \* castling[15] = 6319549394931232528
  >>

\* side = 4906379431808431525
ZobristSide == KeyOf(<<17430, 63001, 7737, 30117>>)

\* noPawns = 895963052000028445
ZobristNoPawns == KeyOf(<<3183, 6566, 5718, 10013>>)

ZobristPsq ==
  [pc \in 0..15 |-> [s \in 0..63 |->
     IF pc \in (1..6) \cup (9..14) THEN KeyOf(ZobristPsqWords[pc][s + 1]) ELSE {}]]

ZobristEnpassant == [f \in 0..7 |-> KeyOf(ZobristEnpassantWords[f + 1])]

ZobristCastling == [cr \in 0..15 |-> IF cr = 0 THEN {} ELSE KeyOf(ZobristCastlingWords[cr])]

Zobrist_psq(pc, s) == ZobristPsq[pc][s]

Zobrist_enpassant(f) == ZobristEnpassant[f]

Zobrist_castling(cr) == ZobristCastling[cr]

(***************************************************************************)
(* Bit geometry (bitboard.h): attack tables, rays, between and line masks. *)
(***************************************************************************)
Min(S) == CHOOSE x \in S : \A y \in S : x <= y

lsb(b) == Min(b)

more_than_one(b) == Cardinality(b) > 1

OnBoard(f, r) == f \in 0..7 /\ r \in 0..7

\* The squares reached from s by one step of each given (file, rank) offset.
StepAttacks(s, steps) ==
  { make_square(file_of(s) + d[1], rank_of(s) + d[2]) :
      d \in { e \in steps : OnBoard(file_of(s) + e[1], rank_of(s) + e[2]) } }

KnightSteps == { <<1, 2>>, <<2, 1>>, <<2, -1>>, <<1, -2>>, <<-1, -2>>, <<-2, -1>>, <<-2, 1>>, <<-1, 2>> }

KingSteps == { <<1, 0>>, <<1, 1>>, <<0, 1>>, <<-1, 1>>, <<-1, 0>>, <<-1, -1>>, <<0, -1>>, <<1, -1>> }

RookDirs == << <<1, 0>>, <<0, 1>>, <<-1, 0>>, <<0, -1>> >>

BishopDirs == << <<1, 1>>, <<-1, 1>>, <<-1, -1>>, <<1, -1>> >>

PawnAttacksTab ==
  [c \in Colors |-> [s \in Squares |->
     StepAttacks(s, IF c = WHITE THEN { <<-1, 1>>, <<1, 1>> } ELSE { <<-1, -1>>, <<1, -1>> })]]

\* PseudoAttacks of the knight and the king.
StepAttacksTab ==
  [pt \in {KNIGHT, KING} |-> [s \in Squares |->
     StepAttacks(s, IF pt = KNIGHT THEN KnightSteps ELSE KingSteps)]]

\* The squares from s towards the board edge in direction d, nearest first.
Ray(s, d) ==
  [k \in 1..Cardinality({ j \in 1..7 : OnBoard(file_of(s) + j * d[1], rank_of(s) + j * d[2]) }) |->
     make_square(file_of(s) + k * d[1], rank_of(s) + k * d[2])]

\* The rays of a bishop, a rook or a queen from every square.
RaysTab ==
  [pt \in {BISHOP, ROOK, QUEEN} |-> [s \in Squares |->
     [i \in 1..(IF pt = QUEEN THEN 8 ELSE 4) |->
        Ray(s, IF pt = BISHOP THEN BishopDirs[i]
               ELSE IF i <= 4 THEN RookDirs[i] ELSE BishopDirs[i - 4])]]]

\* A ray up to and including its first occupied square.
RayAttack(ray, occupied) ==
  { ray[i] : i \in { j \in 1..Len(ray) : \A k \in 1..(j - 1) : ray[k] \notin occupied } }

SlidingAttack(rays, occupied) == UNION { RayAttack(rays[i], occupied) : i \in DOMAIN rays }

pawn_attacks_bb(c, s) == PawnAttacksTab[c][s]

\* attacks_bb(pt, s, occupied) for every piece type but the pawn.
attacks_bb(pt, s, occupied) ==
  IF pt \in {BISHOP, ROOK, QUEEN} THEN SlidingAttack(RaysTab[pt][s], occupied)
  ELSE IF pt \in {KNIGHT, KING} THEN StepAttacksTab[pt][s]
  ELSE {}

\* LineBB[s1][s2]: the whole line through two aligned squares, else empty.
LineBB ==
  [s1 \in Squares |-> [s2 \in Squares |->
     IF s1 # s2 /\ s2 \in SlidingAttack(RaysTab[QUEEN][s1], {})
     THEN { s \in Squares :
              (file_of(s) - file_of(s1)) * (rank_of(s2) - rank_of(s1))
                = (rank_of(s) - rank_of(s1)) * (file_of(s2) - file_of(s1)) }
     ELSE {}]]

\* BetweenBB[s1][s2]: the squares strictly between two aligned squares, plus
\* s2 itself; only s2 when the squares are not aligned.
BetweenBB ==
  [s1 \in Squares |-> [s2 \in Squares |->
     { s \in LineBB[s1][s2] :
         (file_of(s) - file_of(s1)) * (file_of(s) - file_of(s2))
           + (rank_of(s) - rank_of(s1)) * (rank_of(s) - rank_of(s2)) < 0 } \cup {s2}]]

line_bb(s1, s2) == LineBB[s1][s2]

between_bb(s1, s2) == BetweenBB[s1][s2]

aligned(s1, s2, s3) == s3 \in line_bb(s1, s2)

(***************************************************************************)
(* The Position object and its StateInfo chain (position.h).  P.st is the  *)
(* chain st -> previous -> ... oldest first: its last element is *st and   *)
(* the element before it is st->previous.                                  *)
(***************************************************************************)
BBXor(a, b) == (a \ b) \cup (b \ a)

St(P) == P.st[Len(P.st)]

\* P with the current StateInfo *st replaced by si.
WithSt(P, si) == [P EXCEPT !.st[Len(P.st)] = si]

pieces(P) == P.byTypeBB[ALL_PIECES]

pieces_pt(P, pt) == P.byTypeBB[pt]

pieces_pp(P, pt1, pt2) == P.byTypeBB[pt1] \cup P.byTypeBB[pt2]

pieces_c(P, c) == P.byColorBB[c]

pieces_cp(P, c, pt) == P.byColorBB[c] \cap P.byTypeBB[pt]

pieces_cpp(P, c, pt1, pt2) == P.byColorBB[c] \cap (P.byTypeBB[pt1] \cup P.byTypeBB[pt2])

piece_on(P, s) == P.board[s]

empty(P, s) == piece_on(P, s) = NO_PIECE

moved_piece(P, m) == piece_on(P, from_sq(m))

\* square<KING>(c)
square_king(P, c) == lsb(pieces_cp(P, c, KING))

ep_square(P) == St(P).epSquare

checkers(P) == St(P).checkersBB

blockers_for_king(P, c) == St(P).blockersForKing[c]

pinners(P, c) == St(P).pinners[c]

check_squares(P, pt) == St(P).checkSquares[pt]

can_castle(P, cr) == St(P).castlingRights \cap cr # {}

castling_rook_square(P, cr) == P.castlingRookSquare[cr]

castling_impeded(P, cr) == pieces(P) \cap P.castlingPath[cr] # {}

put_piece(P, pc, s) ==
  LET t1 == [P.byTypeBB EXCEPT ![ALL_PIECES] = @ \cup {s}]
      t2 == [t1 EXCEPT ![type_of(pc)] = @ \cup {s}]
      n1 == [P.pieceCount EXCEPT ![pc] = @ + 1]
      n2 == [n1 EXCEPT ![make_piece(color_of(pc), ALL_PIECES)] = @ + 1]
  IN  [P EXCEPT !.board[s] = pc,
                !.byTypeBB = t2,
                !.byColorBB[color_of(pc)] = @ \cup {s},
                !.pieceCount = n2]

remove_piece(P, s) ==
  LET pc == P.board[s]
      t1 == [P.byTypeBB EXCEPT ![ALL_PIECES] = BBXor(@, {s})]
      t2 == [t1 EXCEPT ![type_of(pc)] = BBXor(@, {s})]
      n1 == [P.pieceCount EXCEPT ![pc] = @ - 1]
      n2 == [n1 EXCEPT ![make_piece(color_of(pc), ALL_PIECES)] = @ - 1]
  IN  [P EXCEPT !.board[s] = NO_PIECE,
                !.byTypeBB = t2,
                !.byColorBB[color_of(pc)] = BBXor(@, {s}),
                !.pieceCount = n2]

move_piece(P, from, to) ==
  LET pc == P.board[from]
      fromTo == {from, to}
      t1 == [P.byTypeBB EXCEPT ![ALL_PIECES] = BBXor(@, fromTo)]
      t2 == [t1 EXCEPT ![type_of(pc)] = BBXor(@, fromTo)]
      b1 == [P.board EXCEPT ![from] = NO_PIECE]
      b2 == [b1 EXCEPT ![to] = pc]
  IN  [P EXCEPT !.board = b2,
                !.byTypeBB = t2,
                !.byColorBB[color_of(pc)] = BBXor(@, fromTo)]

\* A StateInfo after std::memset(si, 0, sizeof(StateInfo)).
ZeroStateInfo ==
  [pawnKey |-> {}, materialKey |-> {}, nonPawnMaterial |-> [c \in Colors |-> 0],
   castlingRights |-> {}, rule50 |-> 0, pliesFromNull |-> 0, epSquare |-> 0,
   key |-> {}, checkersBB |-> {},
   blockersForKing |-> [c \in Colors |-> {}], pinners |-> [c \in Colors |-> {}],
   checkSquares |-> [pt \in PieceTypes |-> {}],
   capturedPiece |-> NO_PIECE, repetition |-> 0]

\* A Position after std::memset(this, 0, sizeof(Position)) with st = si.
ZeroPosition ==
  [board |-> [s \in Squares |-> NO_PIECE],
   byTypeBB |-> [pt \in 0..7 |-> {}],
   byColorBB |-> [c \in Colors |-> {}],
   pieceCount |-> [pc \in 0..15 |-> 0],
   castlingRightsMask |-> [s \in Squares |-> {}],
   castlingRookSquare |-> [cr \in ANY_CASTLING |-> 0],
   castlingPath |-> [cr \in ANY_CASTLING |-> {}],
   gamePly |-> 0, sideToMove |-> WHITE, chess960 |-> FALSE,
   st |-> <<ZeroStateInfo>>]

set_castling_right(P, c, rfrom) ==
  LET kfrom == square_king(P, c)
      crs == ColorRights(c, IF kfrom < rfrom THEN KING_SIDE ELSE QUEEN_SIDE)
      cr == CHOOSE x \in crs : TRUE
      kto == relative_square(c, IF cr \in KING_SIDE THEN SQ_G1 ELSE SQ_C1)
      rto == relative_square(c, IF cr \in KING_SIDE THEN SQ_F1 ELSE SQ_D1)
      m1 == [P.castlingRightsMask EXCEPT ![kfrom] = @ \cup crs]
      m2 == [m1 EXCEPT ![rfrom] = @ \cup crs]
  IN  [P EXCEPT !.st[Len(P.st)].castlingRights = @ \cup crs,
                !.castlingRightsMask = m2,
                !.castlingRookSquare[cr] = rfrom,
                !.castlingPath[cr] =
                   (between_bb(rfrom, rto) \cup between_bb(kfrom, kto)) \ {kfrom, rfrom}]

\* The snipers of slider_blockers: sliders that attack s when every piece
\* between is removed.
Snipers(P, sliders, s) ==
  UNION { attacks_bb(pt, s, {}) \cap pieces_pp(P, QUEEN, pt) : pt \in {ROOK, BISHOP} } \cap sliders

\* The loop of slider_blockers over the snipers, with occupancy = pieces() ^ snipers.
SniperBlockers(P, s, snipers, occupancy) ==
  LET hit == { sniperSq \in snipers : Cardinality(between_bb(s, sniperSq) \cap occupancy) = 1 }
  IN  [blockers |-> UNION { between_bb(s, sniperSq) \cap occupancy : sniperSq \in hit },
       pinners  |-> { sniperSq \in hit :
                        (between_bb(s, sniperSq) \cap occupancy)
                           \cap pieces_c(P, color_of(piece_on(P, s))) # {} }]

SniperOccupancy(P, s, snipers) == SniperBlockers(P, s, snipers, BBXor(pieces(P), snipers))

\* slider_blockers() counting the other snipers among the pieces in between.
SliderBlockersSnipersStay(P, sliders, s) == SniperBlockers(P, s, Snipers(P, sliders, s), pieces(P))

\* slider_blockers returns the blockers; its out-parameter is the field pinners.
slider_blockers(P, sliders, s) == SniperOccupancy(P, s, Snipers(P, sliders, s))

\* attackers_to(s, occupied)
attackers_to_occ(P, s, occupied) ==
       (pawn_attacks_bb(BLACK, s) \cap pieces_cp(P, WHITE, PAWN))
  \cup (pawn_attacks_bb(WHITE, s) \cap pieces_cp(P, BLACK, PAWN))
  \cup UNION { attacks_bb(pt, s, occupied)
                 \cap (IF pt \in {ROOK, BISHOP} THEN pieces_pp(P, pt, QUEEN) ELSE pieces_pt(P, pt)) :
               pt \in {KNIGHT, ROOK, BISHOP, KING} }

attackers_to(P, s) == attackers_to_occ(P, s, pieces(P))

\* The blockers and pinners set_check_info stores, given sb[c] = slider_blockers
\* for the king of colour c.
WithBlockers(P, sb) ==
  [P EXCEPT !.st[Len(P.st)].blockersForKing = [c \in Colors |-> sb[c].blockers],
            !.st[Len(P.st)].pinners = [c \in Colors |-> sb[Opp(c)].pinners]]

\* The checkSquares set_check_info stores, given the enemy king's square.
WithCheckSquares(P, ksq) ==
  [P EXCEPT !.st[Len(P.st)].checkSquares =
     [pt \in PieceTypes |->
        IF pt = PAWN THEN pawn_attacks_bb(Opp(P.sideToMove), ksq)
        ELSE IF pt = KING THEN {}
        ELSE attacks_bb(pt, ksq, pieces(P))]]

set_check_info(P) ==
  WithCheckSquares(
    WithBlockers(P, [c \in Colors |-> slider_blockers(P, pieces_c(P, Opp(c)), square_king(P, c))]),
    square_king(P, Opp(P.sideToMove)))

\* XOR of the keys f[x] over all x of a finite set S: the bits set in an odd
\* number of them.
XorOver(S, f) == { b \in 0..63 : Cardinality({ x \in S : b \in f[x] }) % 2 = 1 }

\* The key set_state computes: every occupied square, en passant file, side, castling.
StateKey(P) ==
  KeyXor(KeyXor(KeyXor(XorOver(pieces(P), [s \in pieces(P) |-> Zobrist_psq(piece_on(P, s), s)]),
                       IF St(P).epSquare # SQ_NONE
                       THEN Zobrist_enpassant(file_of(St(P).epSquare)) ELSE {}),
                IF P.sideToMove = BLACK THEN ZobristSide ELSE {}),
         Zobrist_castling(CrIndex(St(P).castlingRights)))

StatePawnKey(P) ==
  KeyXor(ZobristNoPawns,
         XorOver(pieces_pt(P, PAWN), [s \in pieces_pt(P, PAWN) |-> Zobrist_psq(piece_on(P, s), s)]))

StateMaterialKey(P) ==
  LET D == { x \in Pieces \X (0..15) : x[2] < P.pieceCount[x[1]] }
  IN  XorOver(D, [x \in D |-> Zobrist_psq(x[1], x[2])])

\* Sum of the values of the pieces of colour c other than pawns and king.
RECURSIVE SumValues(_, _, _)
SumValues(P, c, pt) ==
  IF pt > QUEEN THEN 0
  ELSE Cardinality(pieces_cp(P, c, pt)) * PieceValue(make_piece(c, pt)) + SumValues(P, c, pt + 1)

StateNonPawnMaterial(P, c) == SumValues(P, c, KNIGHT)

\* The four keys set_state computes, stored in *st.
WithStateKeys(P) ==
  [P EXCEPT !.st[Len(P.st)].key = StateKey(P),
            !.st[Len(P.st)].pawnKey = StatePawnKey(P),
            !.st[Len(P.st)].materialKey = StateMaterialKey(P),
            !.st[Len(P.st)].nonPawnMaterial = [c \in Colors |-> StateNonPawnMaterial(P, c)]]

set_state(P) ==
  WithStateKeys(
    set_check_info(
      [P EXCEPT !.st[Len(P.st)].checkersBB =
         attackers_to(P, square_king(P, P.sideToMove)) \cap pieces_c(P, Opp(P.sideToMove))]))
(***************************************************************************)
(* Characters and streams.  A string is a sequence of one-character        *)
(* strings; reading it is modelled by the index of the next character.     *)
(***************************************************************************)
PieceToChar == <<" ", "P", "N", "B", "R", "Q", "K", " ", " ", "p", "n", "b", "r", "q", "k">>

DigitChars == <<"0", "1", "2", "3", "4", "5", "6", "7", "8", "9">>

LowerChars == <<"a", "b", "c", "d", "e", "f", "g", "h", "i", "j", "k", "l", "m",
                "n", "o", "p", "q", "r", "s", "t", "u", "v", "w", "x", "y", "z">>

UpperChars == <<"A", "B", "C", "D", "E", "F", "G", "H", "I", "J", "K", "L", "M",
                "N", "O", "P", "Q", "R", "S", "T", "U", "V", "W", "X", "Y", "Z">>

\* The 0-based position of the first occurrence of ch in seq, or -1 (npos).
Find(seq, ch) ==
  IF \E i \in 1..Len(seq) : seq[i] = ch
  THEN Min({ i \in 1..Len(seq) : seq[i] = ch }) - 1
  ELSE -1

isdigit(ch) == Find(DigitChars, ch) >= 0

islower(ch) == Find(LowerChars, ch) >= 0

isspace(ch) == ch = " "

toupper(ch) == IF islower(ch) THEN UpperChars[Find(LowerChars, ch) + 1] ELSE ch

\* C++ integer division (truncation towards zero) for a positive divisor.
CDiv(a, b) == IF a >= 0 THEN a \div b ELSE -((-a) \div b)

Max2(a, b) == IF a >= b THEN a ELSE b

Max(S) == CHOOSE x \in S : \A y \in S : y <= x

\* operator<<(int): the decimal digits of a non-negative integer.
RECURSIVE IntToChars(_)
IntToChars(n) ==
  IF n < 10 THEN <<DigitChars[n + 1]>>
  ELSE IntToChars(n \div 10) \o <<DigitChars[(n % 10) + 1]>>

\* UCI::square
UCI_square(s) == <<LowerChars[file_of(s) + 1], DigitChars[rank_of(s) + 2]>>

(***************************************************************************)
(* Position::fen()                                                         *)
(***************************************************************************)
\* One rank of the placement field, from file f on, with emptyCnt pending.
RECURSIVE FenRank(_, _, _, _)
FenRank(P, r, f, emptyCnt) ==
  IF f > 7 THEN (IF emptyCnt > 0 THEN IntToChars(emptyCnt) ELSE <<>>)
  ELSE IF empty(P, make_square(f, r)) THEN FenRank(P, r, f + 1, emptyCnt + 1)
  ELSE (IF emptyCnt > 0 THEN IntToChars(emptyCnt) ELSE <<>>)
       \o <<PieceToChar[piece_on(P, make_square(f, r)) + 1]>>
       \o FenRank(P, r, f + 1, 0)

RECURSIVE FenPlacement(_, _)
FenPlacement(P, r) ==
  FenRank(P, r, 0, 0) \o (IF r > 0 THEN <<"/">> \o FenPlacement(P, r - 1) ELSE <<>>)

FenCastling(P) ==
  LET one(cr, std, alpha) ==
        IF can_castle(P, {cr})
        THEN <<IF P.chess960 THEN alpha[file_of(castling_rook_square(P, cr)) + 1] ELSE std>>
        ELSE <<>>
  IN     one(WHITE_OO, "K", UpperChars) \o one(WHITE_OOO, "Q", UpperChars)
      \o one(BLACK_OO, "k", LowerChars) \o one(BLACK_OOO, "q", LowerChars)
      \o (IF ~can_castle(P, ANY_CASTLING) THEN <<"-">> ELSE <<>>)

\* fen() that never writes the en passant square.
FenWithoutEp(P) ==
     FenPlacement(P, 7)
  \o (IF P.sideToMove = WHITE THEN <<" ", "w", " ">> ELSE <<" ", "b", " ">>)
  \o FenCastling(P)
  \o <<" ", "-", " ">>
  \o IntToChars(St(P).rule50) \o <<" ">>
  \o IntToChars(1 + CDiv(P.gamePly - (IF P.sideToMove = BLACK THEN 1 ELSE 0), 2))

fen(P) ==
     FenPlacement(P, 7)
  \o (IF P.sideToMove = WHITE THEN <<" ", "w", " ">> ELSE <<" ", "b", " ">>)
  \o FenCastling(P)
  \o (IF ep_square(P) = SQ_NONE THEN <<" ", "-", " ">> ELSE <<" ">> \o UCI_square(ep_square(P)) \o <<" ">>)
  \o IntToChars(St(P).rule50) \o <<" ">>
  \o IntToChars(1 + CDiv(P.gamePly - (IF P.sideToMove = BLACK THEN 1 ELSE 0), 2))

(***************************************************************************)
(* Position::set(fenStr, isChess960, si)                                   *)
(***************************************************************************)
\* 1. Piece placement.  The loop reads characters up to and including the
\* first white space; PlacementEnd is the index of that white space (or one
\* past the end of the string).
PlacementEnd(fenStr) ==
  Min({ i \in 1..(Len(fenStr) + 1) : i > Len(fenStr) \/ isspace(fenStr[i]) })

\* What one character of the placement adds to sq: the digit's value, one
\* square after a piece, two ranks down for '/', nothing for anything else.
PlacementStep(token) ==
  IF isdigit(token) THEN Find(DigitChars, token)
  ELSE IF token = "/" THEN -16
  ELSE IF Find(PieceToChar, token) >= 0 THEN 1
  ELSE 0

\* The value of sq when the character at index j is read (sq starts at SQ_A8).
PlacementSquare(fenStr, j) ==
    56
  + Cardinality(UNION { {t} \X (1..PlacementStep(fenStr[t])) : t \in 1..(j - 1) })
  - 16 * Cardinality({ t \in 1..(j - 1) : fenStr[t] = "/" })

\* The put_piece calls of the loop, in order: [pc, s] for each piece character.
Placements(fenStr) ==
  LET J == { j \in 1..(PlacementEnd(fenStr) - 1) :
               ~isdigit(fenStr[j]) /\ fenStr[j] # "/" /\ Find(PieceToChar, fenStr[j]) >= 0 }
  IN  [j \in J |-> [pc |-> Find(PieceToChar, fenStr[j]), s |-> PlacementSquare(fenStr, j)]]

\* P after put_piece(pl[j].pc, pl[j].s) for every j of DOMAIN pl in increasing order.
PutPieces(P, pl) ==
  [P EXCEPT
     !.board = [s \in Squares |->
                  IF \E j \in DOMAIN pl : pl[j].s = s
                  THEN pl[Max({ j \in DOMAIN pl : pl[j].s = s })].pc
                  ELSE P.board[s]],
     !.byTypeBB = [pt \in 0..7 |->
                     P.byTypeBB[pt]
                       \cup { pl[j].s : j \in { i \in DOMAIN pl : pt = ALL_PIECES \/ type_of(pl[i].pc) = pt } }],
     !.byColorBB = [c \in Colors |->
                      P.byColorBB[c] \cup { pl[j].s : j \in { i \in DOMAIN pl : color_of(pl[i].pc) = c } }],
     !.pieceCount = [pc \in 0..15 |->
                       P.pieceCount[pc]
                         + Cardinality({ j \in DOMAIN pl :
                                           pl[j].pc = pc \/ make_piece(color_of(pl[j].pc), ALL_PIECES) = pc })]]

\* The position and the index of the next character after the placement loop.
SetPlacement(P, fenStr) ==
  [P |-> PutPieces(P, Placements(fenStr)),
   i |-> IF PlacementEnd(fenStr) > Len(fenStr) THEN PlacementEnd(fenStr) ELSE PlacementEnd(fenStr) + 1]

\* 2. Active color: one character, then the space after it is read.
SetActiveColor(W, fenStr) ==
  [P |-> [W.P EXCEPT !.sideToMove =
                        IF W.i <= Len(fenStr) /\ fenStr[W.i] = "w" THEN WHITE ELSE BLACK],
   i |-> W.i + 2]

\* The rook square a castling letter names (up is the letter in upper case):
\* the outermost rook for K and Q, the named file for A..H; SQ_NONE for a
\* character that is skipped.
CastlingRookOf(P, c, up) ==
  IF up = "K"
  THEN Max({ s \in 0..relative_square(c, SQ_H1) : piece_on(P, s) = make_piece(c, ROOK) })
  ELSE IF up = "Q"
  THEN Min({ s \in relative_square(c, SQ_A1)..63 : piece_on(P, s) = make_piece(c, ROOK) })
  ELSE IF Find(UpperChars, up) \in 0..7
  THEN make_square(Find(UpperChars, up), relative_rank_r(c, 0))
  ELSE SQ_NONE

\* One castling letter: the right is set unless the character is skipped.
SetCastlingToken(P, c, rsq) == IF rsq = SQ_NONE THEN P ELSE set_castling_right(P, c, rsq)

\* 3. Castling availability.
RECURSIVE SetCastling(_, _, _)
SetCastling(P, fenStr, i) ==
  IF i > Len(fenStr) THEN [P |-> P, i |-> i]
  ELSE IF isspace(fenStr[i]) THEN [P |-> P, i |-> i + 1]
  ELSE SetCastling(
         SetCastlingToken(P, IF islower(fenStr[i]) THEN BLACK ELSE WHITE,
                          CastlingRookOf(P, IF islower(fenStr[i]) THEN BLACK ELSE WHITE,
                                         toupper(fenStr[i]))),
         fenStr, i + 1)

\* 4. En passant square: the square named in the FEN, or SQ_NONE.
FenEpSquare(W, fenStr) ==
  IF    W.i + 1 <= Len(fenStr)
     /\ Find(LowerChars, fenStr[W.i]) \in 0..7
     /\ fenStr[W.i + 1] = (IF W.P.sideToMove = WHITE THEN "6" ELSE "3")
  THEN make_square(Find(LowerChars, fenStr[W.i]), Find(DigitChars, fenStr[W.i + 1]) - 1)
  ELSE SQ_NONE

\* set() that asks only for the attacking pawn and the pawn in front.
EpValidWithoutEmpty(P, epsq) ==
     epsq # SQ_NONE
  /\ pawn_attacks_bb(Opp(P.sideToMove), epsq) \cap pieces_cp(P, P.sideToMove, PAWN) # {}
  /\ (epsq + pawn_push(Opp(P.sideToMove))) \in pieces_cp(P, Opp(P.sideToMove), PAWN)

\* The en passant square is kept only if the capture is possible.
EpValid(P, epsq) ==
     epsq # SQ_NONE
  /\ pawn_attacks_bb(Opp(P.sideToMove), epsq) \cap pieces_cp(P, P.sideToMove, PAWN) # {}
  /\ (epsq + pawn_push(Opp(P.sideToMove))) \in pieces_cp(P, Opp(P.sideToMove), PAWN)
  /\ pieces(P) \cap {epsq, epsq + pawn_push(P.sideToMove)} = {}

SetEnpassant(W, fenStr) ==
  [P |-> [W.P EXCEPT !.st[Len(W.P.st)].epSquare =
                        IF EpValid(W.P, FenEpSquare(W, fenStr))
                        THEN FenEpSquare(W, fenStr) ELSE SQ_NONE],
   i |-> IF W.i <= Len(fenStr) /\ Find(LowerChars, fenStr[W.i]) \in 0..7
         THEN W.i + 2 ELSE W.i + 1]

\* operator>>(int) after std::skipws: [ok, value, i].
RECURSIVE SkipWs(_, _)
SkipWs(fenStr, i) == IF i <= Len(fenStr) /\ isspace(fenStr[i]) THEN SkipWs(fenStr, i + 1) ELSE i

RECURSIVE ReadDigits(_, _, _)
ReadDigits(fenStr, i, acc) ==
  IF i <= Len(fenStr) /\ isdigit(fenStr[i])
  THEN ReadDigits(fenStr, i + 1, 10 * acc + Find(DigitChars, fenStr[i]))
  ELSE [ok |-> TRUE, value |-> acc, i |-> i]

ReadIntAt(fenStr, i) ==
  IF i <= Len(fenStr) /\ isdigit(fenStr[i])
  THEN ReadDigits(fenStr, i, 0)
  ELSE [ok |-> FALSE, value |-> 0, i |-> i]

ReadInt(fenStr, i0) == ReadIntAt(fenStr, SkipWs(fenStr, i0))

\* A second extraction fails, leaving 0, when the stream has already failed.
ReadNext(fenStr, n) ==
  IF n.ok THEN ReadInt(fenStr, n.i) ELSE [ok |-> FALSE, value |-> 0, i |-> n.i]

\* 5-6. Halfmove clock and fullmove number, given halfmove clock n5 as read.
SetCounters(P, fenStr, n5, isChess960) ==
  [P EXCEPT !.st[Len(P.st)].rule50 = n5.value,
            !.gamePly = Max2(2 * (ReadNext(fenStr, n5).value - 1), 0)
                          + (IF P.sideToMove = BLACK THEN 1 ELSE 0),
            !.chess960 = isChess960]

\* The clocks of set() with the halfmove clock also taken for pliesFromNull.
SetClocksAlsoNull(W, fenStr, isChess960) ==
  [SetCounters(W.P, fenStr, ReadInt(fenStr, W.i), isChess960)
     EXCEPT !.st[1].pliesFromNull = ReadInt(fenStr, W.i).value]

SetClocks(W, fenStr, isChess960) == SetCounters(W.P, fenStr, ReadInt(fenStr, W.i), isChess960)

SetRights(W, fenStr) == SetCastling(W.P, fenStr, W.i)

set(fenStr, isChess960) ==
  set_state(
    SetClocks(
      SetEnpassant(
        SetRights(
          SetActiveColor(SetPlacement(ZeroPosition, fenStr), fenStr),
          fenStr),
        fenStr),
      fenStr, isChess960))

(***************************************************************************)
(* The ways a call of set() ends, with assertions compiled in: it returns  *)
(* the position ("returned"), an assertion fails ("assert"), or it does    *)
(* not return ("hang").  The assertions of square_bb() and lsb() are those *)
(* of bitboard.h.                                                          *)
(***************************************************************************)
\* Every put_piece of the placement loop names a square of the board
\* (square_bb asserts is_ok(s)).
PlacementOnBoard(fenStr) ==
  \A j \in DOMAIN Placements(fenStr) : Placements(fenStr)[j].s \in Squares

\* The castling loop from character i on: "undefined" when the scan for the
\* rook of a K or Q finds none before it leaves the board, "assert" when
\* set_castling_right takes the square of a king that is not there, else "ok".
RECURSIVE CastlingFault(_, _, _)
CastlingFault(P, fenStr, i) ==
  IF i > Len(fenStr) \/ isspace(fenStr[i]) THEN "ok"
  ELSE IF    toupper(fenStr[i]) = "K"
          /\ \A s \in 0..relative_square(IF islower(fenStr[i]) THEN BLACK ELSE WHITE, SQ_H1) :
                piece_on(P, s) # make_piece(IF islower(fenStr[i]) THEN BLACK ELSE WHITE, ROOK)
  THEN "undefined"
  ELSE IF    toupper(fenStr[i]) = "Q"
          /\ \A s \in relative_square(IF islower(fenStr[i]) THEN BLACK ELSE WHITE, SQ_A1)..63 :
                piece_on(P, s) # make_piece(IF islower(fenStr[i]) THEN BLACK ELSE WHITE, ROOK)
  THEN "undefined"
  ELSE IF    CastlingRookOf(P, IF islower(fenStr[i]) THEN BLACK ELSE WHITE, toupper(fenStr[i])) # SQ_NONE
          /\ pieces_cp(P, IF islower(fenStr[i]) THEN BLACK ELSE WHITE, KING) = {}
  THEN "assert"
  ELSE CastlingFault(P, fenStr, i + 1)

\* pos_is_ok() with Fast = false, as far as its king test.
PosIsOkFull(P) ==
  /\ P.sideToMove \in Colors
  /\ piece_on(P, square_king(P, WHITE)) = make_piece(WHITE, KING)
  /\ piece_on(P, square_king(P, BLACK)) = make_piece(BLACK, KING)
  /\ (ep_square(P) = SQ_NONE \/ relative_rank(P.sideToMove, ep_square(P)) = 5)
  /\ P.pieceCount[make_piece(WHITE, KING)] = 1
  /\ P.pieceCount[make_piece(BLACK, KING)] = 1
  /\ attackers_to(P, square_king(P, Opp(P.sideToMove))) \cap pieces_c(P, P.sideToMove) = {}

\* pos_is_ok() with Fast = true: FALSE when its assertion fails.
pos_is_ok(P) ==
  /\ P.sideToMove \in Colors
  /\ piece_on(P, square_king(P, WHITE)) = make_piece(WHITE, KING)
  /\ piece_on(P, square_king(P, BLACK)) = make_piece(BLACK, KING)
  /\ (ep_square(P) = SQ_NONE \/ relative_rank(P.sideToMove, ep_square(P)) = 5)

\* The outcomes of set() once the placement and the active colour are read
\* (W): the castling loop, then set_state, which takes the squares of both
\* kings, then pos_is_ok.
SetOutcomesFrom(W, fenStr, isChess960) ==
  IF CastlingFault(W.P, fenStr, W.i) = "undefined" THEN {"returned", "assert", "hang"}
  ELSE IF CastlingFault(W.P, fenStr, W.i) = "assert" THEN {"assert"}
  ELSE IF \E c \in Colors : pieces_cp(W.P, c, KING) = {} THEN {"assert"}
  ELSE IF pos_is_ok(set(fenStr, isChess960)) THEN {"returned"}
  ELSE {"assert"}

SetOutcomes(fenStr, isChess960) ==
  IF PlacementOnBoard(fenStr)
  THEN SetOutcomesFrom(SetActiveColor(SetPlacement(ZeroPosition, fenStr), fenStr), fenStr, isChess960)
  ELSE {"assert"}

\* legal() with the last test cut short: a blocker for the king may not move
\* at all, not even along the line through the king.
LegalPinnedNeverMoves(P, m) ==
  LET us == P.sideToMove
      from == from_sq(m)
      to == to_sq(m)
  IN  IF m.type = EN_PASSANT
      THEN LET ksq == square_king(P, us)
               capsq == to - pawn_push(us)
               occupied == BBXor(BBXor(pieces(P), {from}), {capsq}) \cup {to}
           IN     attacks_bb(ROOK, ksq, occupied) \cap pieces_cpp(P, Opp(us), QUEEN, ROOK) = {}
               /\ attacks_bb(BISHOP, ksq, occupied) \cap pieces_cpp(P, Opp(us), QUEEN, BISHOP) = {}
      ELSE IF m.type = CASTLING
      THEN LET kto == relative_square(us, IF to > from THEN SQ_G1 ELSE SQ_C1)
               path == IF kto > from THEN (from + 1)..kto ELSE kto..(from - 1)
           IN     (\A s \in path : attackers_to(P, s) \cap pieces_c(P, Opp(us)) = {})
               /\ (~P.chess960 \/ to_sq(m) \notin blockers_for_king(P, us))
      ELSE IF type_of(piece_on(P, from)) = KING
      THEN attackers_to_occ(P, to, BBXor(pieces(P), {from})) \cap pieces_c(P, Opp(us)) = {}
      ELSE from \notin blockers_for_king(P, us)

\* legal() testing a king move on the occupancy with the king still on its
\* origin square.
LegalKingShadowed(P, m) ==
  LET us == P.sideToMove
      from == from_sq(m)
      to == to_sq(m)
  IN  IF m.type = EN_PASSANT
      THEN LET ksq == square_king(P, us)
               capsq == to - pawn_push(us)
               occupied == BBXor(BBXor(pieces(P), {from}), {capsq}) \cup {to}
           IN     attacks_bb(ROOK, ksq, occupied) \cap pieces_cpp(P, Opp(us), QUEEN, ROOK) = {}
               /\ attacks_bb(BISHOP, ksq, occupied) \cap pieces_cpp(P, Opp(us), QUEEN, BISHOP) = {}
      ELSE IF m.type = CASTLING
      THEN LET kto == relative_square(us, IF to > from THEN SQ_G1 ELSE SQ_C1)
               path == IF kto > from THEN (from + 1)..kto ELSE kto..(from - 1)
           IN     (\A s \in path : attackers_to(P, s) \cap pieces_c(P, Opp(us)) = {})
               /\ (~P.chess960 \/ to_sq(m) \notin blockers_for_king(P, us))
      ELSE IF type_of(piece_on(P, from)) = KING
      THEN attackers_to(P, to) \cap pieces_c(P, Opp(us)) = {}
      ELSE    from \notin blockers_for_king(P, us)
           \/ aligned(from, to, square_king(P, us))

\* legal() that applies the test of the castling rook as a blocker whether
\* or not the game is Chess960.
LegalRookTestAlways(P, m) ==
  LET us == P.sideToMove
      from == from_sq(m)
      to == to_sq(m)
  IN  IF m.type = EN_PASSANT
      THEN LET ksq == square_king(P, us)
               capsq == to - pawn_push(us)
               occupied == BBXor(BBXor(pieces(P), {from}), {capsq}) \cup {to}
           IN     attacks_bb(ROOK, ksq, occupied) \cap pieces_cpp(P, Opp(us), QUEEN, ROOK) = {}
               /\ attacks_bb(BISHOP, ksq, occupied) \cap pieces_cpp(P, Opp(us), QUEEN, BISHOP) = {}
      ELSE IF m.type = CASTLING
      THEN LET kto == relative_square(us, IF to > from THEN SQ_G1 ELSE SQ_C1)
               path == IF kto > from THEN (from + 1)..kto ELSE kto..(from - 1)
           IN     (\A s \in path : attackers_to(P, s) \cap pieces_c(P, Opp(us)) = {})
               /\ to_sq(m) \notin blockers_for_king(P, us)
      ELSE IF type_of(piece_on(P, from)) = KING
      THEN attackers_to_occ(P, to, BBXor(pieces(P), {from})) \cap pieces_c(P, Opp(us)) = {}
      ELSE    from \notin blockers_for_king(P, us)
           \/ aligned(from, to, square_king(P, us))

\* The most iterations of a walk over squares that are followed.
MaxWalk == 64

\* The test of the king's destination square alone, the squares the king
\* passes over left out.
CastlingWalkOnce(P, us, s, from, step, n) ==
  IF s = from THEN [attacked |-> FALSE, steps |-> n, ended |-> TRUE]
  ELSE [attacked |-> attackers_to(P, s) \cap pieces_c(P, Opp(us)) # {}, steps |-> n + 1, ended |-> TRUE]

\* for (Square s = to; s != from; s += step)
\*     if (attackers_to(s) & pieces(~us)) return false;
\* with the number of squares tested; ended is FALSE when the walk is given
\* up after MaxWalk squares.
RECURSIVE CastlingWalk(_, _, _, _, _, _)
CastlingWalk(P, us, s, from, step, n) ==
  IF s = from THEN [attacked |-> FALSE, steps |-> n, ended |-> TRUE]
  ELSE IF n >= MaxWalk THEN [attacked |-> FALSE, steps |-> n, ended |-> FALSE]
  ELSE IF attackers_to(P, s) \cap pieces_c(P, Opp(us)) # {}
  THEN [attacked |-> TRUE, steps |-> n + 1, ended |-> TRUE]
  ELSE CastlingWalk(P, us, s + step, from, step, n + 1)

(***************************************************************************)
(* Position::legal(m)                                                      *)
(***************************************************************************)
legal(P, m) ==
  LET us == P.sideToMove
      from == from_sq(m)
      to == to_sq(m)
  IN  IF m.type = EN_PASSANT
      THEN LET ksq == square_king(P, us)
               capsq == to - pawn_push(us)
               occupied == BBXor(BBXor(pieces(P), {from}), {capsq}) \cup {to}
           IN     attacks_bb(ROOK, ksq, occupied) \cap pieces_cpp(P, Opp(us), QUEEN, ROOK) = {}
               /\ attacks_bb(BISHOP, ksq, occupied) \cap pieces_cpp(P, Opp(us), QUEEN, BISHOP) = {}
      ELSE IF m.type = CASTLING
      THEN LET kto == relative_square(us, IF to > from THEN SQ_G1 ELSE SQ_C1)
           IN     ~CastlingWalk(P, us, kto, from, IF kto > from THEN -1 ELSE 1, 0).attacked
               /\ (~P.chess960 \/ to_sq(m) \notin blockers_for_king(P, us))
      ELSE IF type_of(piece_on(P, from)) = KING
      THEN attackers_to_occ(P, to, BBXor(pieces(P), {from})) \cap pieces_c(P, Opp(us)) = {}
      ELSE    from \notin blockers_for_king(P, us)
           \/ aligned(from, to, square_king(P, us))

\* gives_check() that treats a castling king like any other blocker that
\* moves along the line through the other king.
GivesCheckCastlingAligned(P, m) ==
  LET from == from_sq(m)
      to == to_sq(m)
      them == Opp(P.sideToMove)
  IN  IF to \in check_squares(P, type_of(piece_on(P, from)))
      THEN TRUE
      ELSE IF from \in blockers_for_king(P, them)
      THEN ~aligned(from, to, square_king(P, them))
      ELSE CASE m.type = NORMAL -> FALSE
             [] m.type = PROMOTION ->
                  square_king(P, them)
                    \in attacks_bb(promotion_type(m), to, BBXor(pieces(P), {from}))
             [] m.type = EN_PASSANT ->
                  LET capsq == make_square(file_of(to), rank_of(from))
                      b == BBXor(BBXor(pieces(P), {from}), {capsq}) \cup {to}
                  IN  (   (attacks_bb(ROOK, square_king(P, them), b)
                             \cap pieces_cpp(P, P.sideToMove, QUEEN, ROOK))
                       \cup (attacks_bb(BISHOP, square_king(P, them), b)
                             \cap pieces_cpp(P, P.sideToMove, QUEEN, BISHOP))) # {}
             [] OTHER ->
                  LET rto == relative_square(P.sideToMove, IF to > from THEN SQ_F1 ELSE SQ_D1)
                  IN  rto \in check_squares(P, ROOK)

\* gives_check() without the discovered-check test.
GivesCheckDirectOnly(P, m) ==
  to_sq(m) \in check_squares(P, type_of(piece_on(P, from_sq(m))))

(***************************************************************************)
(* Position::gives_check(m)                                                *)
(***************************************************************************)
gives_check(P, m) ==
  LET from == from_sq(m)
      to == to_sq(m)
      them == Opp(P.sideToMove)
  IN  IF to \in check_squares(P, type_of(piece_on(P, from)))
      THEN TRUE
      ELSE IF from \in blockers_for_king(P, them)
      THEN ~aligned(from, to, square_king(P, them)) \/ m.type = CASTLING
      ELSE CASE m.type = NORMAL -> FALSE
             [] m.type = PROMOTION ->
                  square_king(P, them)
                    \in attacks_bb(promotion_type(m), to, BBXor(pieces(P), {from}))
             [] m.type = EN_PASSANT ->
                  LET capsq == make_square(file_of(to), rank_of(from))
                      b == BBXor(BBXor(pieces(P), {from}), {capsq}) \cup {to}
                  IN  (   (attacks_bb(ROOK, square_king(P, them), b)
                             \cap pieces_cpp(P, P.sideToMove, QUEEN, ROOK))
                       \cup (attacks_bb(BISHOP, square_king(P, them), b)
                             \cap pieces_cpp(P, P.sideToMove, QUEEN, BISHOP))) # {}
             [] OTHER ->
                  LET rto == relative_square(P.sideToMove, IF to > from THEN SQ_F1 ELSE SQ_D1)
                  IN  rto \in check_squares(P, ROOK)

\* do_castling<Do> with each piece moved in turn, the king first, instead of
\* both being removed before either is put down.
DoCastlingInTurn(Do, P, us, from, to) ==
  [P |-> move_piece(
           move_piece(P,
                      IF Do THEN from ELSE relative_square(us, IF to > from THEN SQ_G1 ELSE SQ_C1),
                      IF Do THEN relative_square(us, IF to > from THEN SQ_G1 ELSE SQ_C1) ELSE from),
           IF Do THEN to ELSE relative_square(us, IF to > from THEN SQ_F1 ELSE SQ_D1),
           IF Do THEN relative_square(us, IF to > from THEN SQ_F1 ELSE SQ_D1) ELSE to),
   to |-> relative_square(us, IF to > from THEN SQ_G1 ELSE SQ_C1),
   rfrom |-> to,
   rto |-> relative_square(us, IF to > from THEN SQ_F1 ELSE SQ_D1)]

\* do_castling<Do> that empties the squares left by king and rook after the
\* two pieces have been put down instead of before.
DoCastlingClearsLast(Do, P, us, from, to) ==
  LET kingSide == to > from
      rfrom == to
      rto == relative_square(us, IF kingSide THEN SQ_F1 ELSE SQ_D1)
      kto == relative_square(us, IF kingSide THEN SQ_G1 ELSE SQ_C1)
      P1 == remove_piece(P, IF Do THEN from ELSE kto)
      P2 == remove_piece(P1, IF Do THEN rfrom ELSE rto)
      P3 == put_piece(P2, make_piece(us, KING), IF Do THEN kto ELSE from)
      P4 == put_piece(P3, make_piece(us, ROOK), IF Do THEN rto ELSE rfrom)
      b1 == [P4.board EXCEPT ![IF Do THEN rfrom ELSE rto] = NO_PIECE]
      b2 == [b1 EXCEPT ![IF Do THEN from ELSE kto] = NO_PIECE]
  IN  [P |-> [P4 EXCEPT !.board = b2], to |-> kto, rfrom |-> rfrom, rto |-> rto]

(***************************************************************************)
(* Position::do_castling<Do>: the position after it, with the king's       *)
(* destination (the in/out parameter to) and the rook's two squares.       *)
(***************************************************************************)
do_castling(Do, P, us, from, to) ==
  LET kingSide == to > from
      rfrom == to
      rto == relative_square(us, IF kingSide THEN SQ_F1 ELSE SQ_D1)
      kto == relative_square(us, IF kingSide THEN SQ_G1 ELSE SQ_C1)
      P1 == remove_piece(P, IF Do THEN from ELSE kto)
      P2 == remove_piece(P1, IF Do THEN rfrom ELSE rto)
      b1 == [P2.board EXCEPT ![IF Do THEN rfrom ELSE rto] = NO_PIECE]
      b2 == [b1 EXCEPT ![IF Do THEN from ELSE kto] = NO_PIECE]
      P3 == [P2 EXCEPT !.board = b2]
      P4 == put_piece(P3, make_piece(us, KING), IF Do THEN kto ELSE from)
      P5 == put_piece(P4, make_piece(us, ROOK), IF Do THEN rto ELSE rfrom)
  IN  [P |-> P5, to |-> kto, rfrom |-> rfrom, rto |-> rto]

\* Bitwise XOR of two square numbers (int(to) ^ int(from)).
RECURSIVE IntXor(_, _)
IntXor(a, b) ==
  IF a = 0 THEN b ELSE IF b = 0 THEN a
  ELSE ((a + b) % 2) + 2 * IntXor(a \div 2, b \div 2)

\* The repetition scan without the sign for a position seen twice before.
RepetitionUnsigned(chain) ==
  LET n == Len(chain)
      end == IF chain[n].rule50 <= chain[n].pliesFromNull
             THEN chain[n].rule50 ELSE chain[n].pliesFromNull
      hits == { i \in 4..end : i % 2 = 0 /\ chain[n - i].key = chain[n].key }
  IN  IF hits = {} THEN 0 ELSE Min(hits)

\* The repetition scan that does not leave the loop at the first equal key:
\* the farthest occurrence is the one recorded.
RepetitionNoBreak(chain) ==
  LET n == Len(chain)
      end == IF chain[n].rule50 <= chain[n].pliesFromNull
             THEN chain[n].rule50 ELSE chain[n].pliesFromNull
      hits == { i \in 4..end : i % 2 = 0 /\ chain[n - i].key = chain[n].key }
  IN  IF hits = {} THEN 0
      ELSE IF chain[n - Max(hits)].repetition # 0 THEN -Max(hits) ELSE Max(hits)

\* for (int i = 4; i <= end; i += 2): the loop from distance i on; stp is the
\* state i plies back, chain[Len(chain) - i].
RECURSIVE RepetitionScan(_, _, _)
RepetitionScan(chain, i, end) ==
  IF i > end THEN 0
  ELSE IF chain[Len(chain) - i].key = chain[Len(chain)].key
       THEN (IF chain[Len(chain) - i].repetition # 0 THEN -i ELSE i)
       ELSE RepetitionScan(chain, i + 2, end)

\* The repetition field do_move computes for the last state of chain.
Repetition(chain) ==
  RepetitionScan(chain, 4,
                 IF chain[Len(chain)].rule50 <= chain[Len(chain)].pliesFromNull
                 THEN chain[Len(chain)].rule50 ELSE chain[Len(chain)].pliesFromNull)

(***************************************************************************)
(* Position::do_move(m, newSt, givesCheck).  The new StateInfo is appended *)
(* to the chain (newSt.previous = st; st = &newSt).  The function is       *)
(* modelled block by block; L holds the object and the function's local    *)
(* variables: L.P the position, L.k the key, L.us, L.them, L.from, L.to,   *)
(* L.pc and L.captured.                                                    *)
(***************************************************************************)
\* The entry block: the key, the copied StateInfo, the ply counters, the locals.
DoMoveEnter(P, m) ==
  [P |-> [P EXCEPT !.gamePly = @ + 1,
                   !.st = Append(@,
                            \* memcpy(&newSt, st, offsetof(StateInfo, key))
                            [ZeroStateInfo EXCEPT !.pawnKey = St(P).pawnKey,
                                                  !.materialKey = St(P).materialKey,
                                                  !.nonPawnMaterial = St(P).nonPawnMaterial,
                                                  !.castlingRights = St(P).castlingRights,
                                                  !.rule50 = St(P).rule50 + 1,
                                                  !.pliesFromNull = St(P).pliesFromNull + 1,
                                                  !.epSquare = St(P).epSquare])],
   k |-> KeyXor(St(P).key, ZobristSide),
   us |-> P.sideToMove,
   them |-> Opp(P.sideToMove),
   from |-> from_sq(m),
   to |-> to_sq(m),
   pc |-> piece_on(P, from_sq(m)),
   captured |-> IF m.type = EN_PASSANT THEN make_piece(Opp(P.sideToMove), PAWN)
                ELSE piece_on(P, to_sq(m))]

\* The locals after castling, with the clock reset as if the rook were captured.
DoMoveCastledResetsClock(L, c) ==
  [L EXCEPT !.P = WithSt(c.P, [St(c.P) EXCEPT !.rule50 = 0]),
            !.to = c.to,
            !.k = KeyXor(@, KeyXor(Zobrist_psq(L.captured, c.rfrom), Zobrist_psq(L.captured, c.rto))),
            !.captured = NO_PIECE]

\* The locals after do_castling<true> has returned c.
DoMoveCastled(L, c) ==
  [L EXCEPT !.P = c.P,
            !.to = c.to,
            !.k = KeyXor(@, KeyXor(Zobrist_psq(L.captured, c.rfrom), Zobrist_psq(L.captured, c.rto))),
            !.captured = NO_PIECE]

\* if (type_of(m) == CASTLING) ...
DoMoveCastling(L, m) ==
  IF m.type = CASTLING
  THEN DoMoveCastled(L, do_castling(TRUE, L.P, L.us, L.from, L.to))
  ELSE L

\* The capture block taking the pawn key of the destination square, which is
\* not the captured pawn's square in an en passant capture.
DoMoveCapturedKeyOnTo(L, capsq, Q) ==
  [L EXCEPT
     !.P = WithSt(Q,
             [St(Q) EXCEPT
                !.pawnKey = IF type_of(L.captured) = PAWN
                            THEN KeyXor(@, Zobrist_psq(L.captured, L.to)) ELSE @,
                !.nonPawnMaterial[L.them] = IF type_of(L.captured) = PAWN
                                            THEN @ ELSE @ - PieceValue(L.captured),
                !.materialKey = KeyXor(@, Zobrist_psq(L.captured, Q.pieceCount[L.captured])),
                !.rule50 = 0]),
     !.k = KeyXor(@, Zobrist_psq(L.captured, capsq))]

\* The capture block for the captured piece on capsq; Q is the position after
\* remove_piece(capsq).
DoMoveCaptured(L, capsq, Q) ==
  [L EXCEPT
     !.P = WithSt(Q,
             [St(Q) EXCEPT
                !.pawnKey = IF type_of(L.captured) = PAWN
                            THEN KeyXor(@, Zobrist_psq(L.captured, capsq)) ELSE @,
                !.nonPawnMaterial[L.them] = IF type_of(L.captured) = PAWN
                                            THEN @ ELSE @ - PieceValue(L.captured),
                !.materialKey = KeyXor(@, Zobrist_psq(L.captured, Q.pieceCount[L.captured])),
                !.rule50 = 0]),
     !.k = KeyXor(@, Zobrist_psq(L.captured, capsq))]

DoMoveCaptureAt(L, capsq) == DoMoveCaptured(L, capsq, remove_piece(L.P, capsq))

\* if (captured) ...
DoMoveCapture(L, m) ==
  IF L.captured # NO_PIECE
  THEN DoMoveCaptureAt(L, IF type_of(L.captured) = PAWN /\ m.type = EN_PASSANT
                          THEN L.to - pawn_push(L.us) ELSE L.to)
  ELSE L

\* The key of the moved piece and the reset of the en passant square.
DoMoveEpReset(L) ==
  [L EXCEPT
     !.k = KeyXor(KeyXor(@, KeyXor(Zobrist_psq(L.pc, L.from), Zobrist_psq(L.pc, L.to))),
                  IF St(L.P).epSquare # SQ_NONE
                  THEN Zobrist_enpassant(file_of(St(L.P).epSquare)) ELSE {}),
     !.P = WithSt(L.P, [St(L.P) EXCEPT !.epSquare = SQ_NONE])]

\* The castling rights block removing the rights of the side to move only.
DoMoveRightsOfMover(L, masks) ==
  IF St(L.P).castlingRights # {} /\ masks # {}
  THEN [L EXCEPT
          !.k = KeyXor(KeyXor(@, Zobrist_castling(CrIndex(St(L.P).castlingRights))),
                       Zobrist_castling(CrIndex(St(L.P).castlingRights \ masks))),
          !.P = WithSt(L.P, [St(L.P) EXCEPT !.castlingRights =
                   @ \ (masks \cap (IF L.P.sideToMove = WHITE THEN WHITE_CASTLING
                                                              ELSE BLACK_CASTLING))])]
  ELSE L

\* The castling rights block, masks = castlingRightsMask[from] | castlingRightsMask[to].
DoMoveRights(L, masks) ==
  IF St(L.P).castlingRights # {} /\ masks # {}
  THEN [L EXCEPT
          !.k = KeyXor(KeyXor(@, Zobrist_castling(CrIndex(St(L.P).castlingRights))),
                       Zobrist_castling(CrIndex(St(L.P).castlingRights \ masks))),
          !.P = WithSt(L.P, [St(L.P) EXCEPT !.castlingRights = @ \ masks])]
  ELSE L

\* if (type_of(m) != CASTLING) move_piece(from, to);
DoMovePiece(L, m) ==
  IF m.type # CASTLING THEN [L EXCEPT !.P = move_piece(L.P, L.from, L.to)] ELSE L

\* The promotion block; Q is the position after remove_piece(to) and
\* put_piece(promotion, to).
DoMovePromoted(L, promotion, Q) ==
  [L EXCEPT
     !.P = WithSt(Q,
             [St(Q) EXCEPT
                !.pawnKey = KeyXor(@, Zobrist_psq(L.pc, L.to)),
                !.materialKey =
                   KeyXor(@, KeyXor(Zobrist_psq(promotion, Q.pieceCount[promotion] - 1),
                                    Zobrist_psq(L.pc, Q.pieceCount[L.pc]))),
                !.nonPawnMaterial[L.us] = @ + PieceValue(promotion)]),
     !.k = KeyXor(@, KeyXor(Zobrist_psq(L.pc, L.to), Zobrist_psq(promotion, L.to)))]

\* The pawn block that records the en passant square but leaves the key alone.
PawnSpecialStaleKey(L, m) ==
  IF    IntXor(L.to, L.from) = 16
     /\ pawn_attacks_bb(L.us, L.to - pawn_push(L.us)) \cap pieces_cp(L.P, L.them, PAWN) # {}
  THEN [L EXCEPT !.P = WithSt(L.P, [St(L.P) EXCEPT !.epSquare = L.to - pawn_push(L.us)])]
  ELSE IF m.type = PROMOTION
  THEN DoMovePromoted(L, make_piece(L.us, promotion_type(m)),
                      put_piece(remove_piece(L.P, L.to), make_piece(L.us, promotion_type(m)), L.to))
  ELSE L

\* The pawn block setting the en passant square after every double push.
DoMovePawnSpecialAnyPush(L, m) ==
  IF IntXor(L.to, L.from) = 16
  THEN [L EXCEPT !.P = WithSt(L.P, [St(L.P) EXCEPT !.epSquare = L.to - pawn_push(L.us)]),
                 !.k = KeyXor(@, Zobrist_enpassant(file_of(L.to - pawn_push(L.us))))]
  ELSE IF m.type = PROMOTION
  THEN DoMovePromoted(L, make_piece(L.us, promotion_type(m)),
                      put_piece(remove_piece(L.P, L.to), make_piece(L.us, promotion_type(m)), L.to))
  ELSE L

\* The pawn block up to the promotion: a new en passant square, or a promotion.
DoMovePawnSpecial(L, m) ==
  IF    IntXor(L.to, L.from) = 16
     /\ pawn_attacks_bb(L.us, L.to - pawn_push(L.us)) \cap pieces_cp(L.P, L.them, PAWN) # {}
  THEN [L EXCEPT !.P = WithSt(L.P, [St(L.P) EXCEPT !.epSquare = L.to - pawn_push(L.us)]),
                 !.k = KeyXor(@, Zobrist_enpassant(file_of(L.to - pawn_push(L.us))))]
  ELSE IF m.type = PROMOTION
  THEN DoMovePromoted(L, make_piece(L.us, promotion_type(m)),
                      put_piece(remove_piece(L.P, L.to), make_piece(L.us, promotion_type(m)), L.to))
  ELSE L

\* The end of the pawn block without the reset of the rule50 counter.
PawnKeyKeepsClock(L) ==
  [L EXCEPT !.P = WithSt(L.P,
                    [St(L.P) EXCEPT
                       !.pawnKey = KeyXor(@, KeyXor(Zobrist_psq(L.pc, L.from), Zobrist_psq(L.pc, L.to)))])]

\* The end of the pawn block: the pawn key and the rule50 reset.
DoMovePawnKey(L) ==
  [L EXCEPT !.P = WithSt(L.P,
                    [St(L.P) EXCEPT
                       !.pawnKey = KeyXor(@, KeyXor(Zobrist_psq(L.pc, L.from), Zobrist_psq(L.pc, L.to))),
                       !.rule50 = 0])]

\* if (type_of(pc) == PAWN) ...
DoMovePawn(L, m) ==
  IF type_of(L.pc) = PAWN THEN DoMovePawnKey(DoMovePawnSpecial(L, m)) ELSE L

\* The captured piece, the key, the checkers, the side to move and set_check_info.
DoMoveLeave(L, givesCheck) ==
  set_check_info(
    [WithSt(L.P,
       [St(L.P) EXCEPT
          !.capturedPiece = L.captured,
          !.key = L.k,
          !.checkersBB = IF givesCheck
                         THEN attackers_to(L.P, square_king(L.P, L.them)) \cap pieces_c(L.P, L.us)
                         ELSE {}])
     EXCEPT !.sideToMove = Opp(@)])

\* st->repetition for the last state of the chain.
WithRepetition(P) == [P EXCEPT !.st[Len(P.st)].repetition = Repetition(P.st)]

DoMoveMasks(L) ==
  DoMoveRights(L, L.P.castlingRightsMask[L.from] \cup L.P.castlingRightsMask[L.to])

do_move(P, m, givesCheck) ==
  WithRepetition(
    DoMoveLeave(
      DoMovePawn(
        DoMovePiece(
          DoMoveMasks(
            DoMoveEpReset(
              DoMoveCapture(
                DoMoveCastling(DoMoveEnter(P, m), m),
                m))),
          m),
        m),
      givesCheck))

\* undo_move() that puts a captured piece back on the destination square even
\* after an en passant capture.
UndoMoveCapturedOnTo(P, m) ==
  [(IF St(P).capturedPiece # NO_PIECE
    THEN put_piece(move_piece([P EXCEPT !.sideToMove = Opp(@)], to_sq(m), from_sq(m)),
                   St(P).capturedPiece, to_sq(m))
    ELSE move_piece([P EXCEPT !.sideToMove = Opp(@)], to_sq(m), from_sq(m)))
   EXCEPT !.st = SubSeq(@, 1, Len(@) - 1), !.gamePly = @ - 1]

(***************************************************************************)
(* Position::undo_move(m)                                                  *)
(***************************************************************************)
undo_move(P, m) ==
  LET us == Opp(P.sideToMove)
      Pa == [P EXCEPT !.sideToMove = us]
      from == from_sq(m)
      to == to_sq(m)
      pc0 == piece_on(P, to)
      Pb == IF m.type = PROMOTION
            THEN put_piece(remove_piece(Pa, to), make_piece(us, PAWN), to)
            ELSE Pa
      Pc == IF m.type = CASTLING
            THEN do_castling(FALSE, Pb, us, from, to).P
            ELSE LET Pm == move_piece(Pb, to, from)
                     capsq == IF m.type = EN_PASSANT THEN to - pawn_push(us) ELSE to
                 IN  IF St(P).capturedPiece # NO_PIECE
                     THEN put_piece(Pm, St(P).capturedPiece, capsq)
                     ELSE Pm
  IN  [Pc EXCEPT !.st = SubSeq(@, 1, Len(@) - 1), !.gamePly = @ - 1]

(***************************************************************************)
(* Position::do_null_move(newSt) and Position::undo_null_move()            *)
(***************************************************************************)
\* do_null_move() that also counts the null move in the fifty-move counter.
DoNullMoveCountsClock(P) ==
  set_check_info([P EXCEPT !.st = Append(@, [St(P) EXCEPT
                                               !.key = KeyXor(IF St(P).epSquare # SQ_NONE
                                                              THEN KeyXor(St(P).key, Zobrist_enpassant(file_of(St(P).epSquare)))
                                                              ELSE St(P).key,
                                                              ZobristSide),
                                               !.epSquare = SQ_NONE,
                                               !.rule50 = @ + 1,
                                               !.pliesFromNull = 0]),
                           !.sideToMove = Opp(@)])

\* do_null_move() that resets pliesFromNull through the state pointer before
\* the pointer is switched to the new record.
DoNullMoveWritesOld(P) ==
  set_check_info([P EXCEPT !.st = Append([@ EXCEPT ![Len(@)].pliesFromNull = 0],
                                         [St(P) EXCEPT
                                            !.key = KeyXor(IF St(P).epSquare # SQ_NONE
                                                           THEN KeyXor(St(P).key, Zobrist_enpassant(file_of(St(P).epSquare)))
                                                           ELSE St(P).key,
                                                           ZobristSide),
                                            !.epSquare = SQ_NONE,
                                            !.pliesFromNull = 0]),
                           !.sideToMove = Opp(@)])

do_null_move(P) ==
  LET old == St(P)
      \* memcpy(&newSt, st, sizeof(StateInfo))
      k1 == IF old.epSquare # SQ_NONE
            THEN KeyXor(old.key, Zobrist_enpassant(file_of(old.epSquare))) ELSE old.key
      s1 == [old EXCEPT !.key = KeyXor(k1, ZobristSide),
                        !.epSquare = SQ_NONE,
                        !.pliesFromNull = 0]
  IN  set_check_info([P EXCEPT !.st = Append(@, s1), !.sideToMove = Opp(@)])

\* undo_null_move() that pops the state but leaves the side to move.
UndoNullKeepsSide(P) == [P EXCEPT !.st = SubSeq(@, 1, Len(@) - 1)]

undo_null_move(P) ==
  [P EXCEPT !.st = SubSeq(@, 1, Len(@) - 1), !.sideToMove = Opp(@)]

(***************************************************************************)
(* The move generator (MoveList<EVASIONS>, MoveList<NON_EVASIONS> and      *)
(* MoveList<LEGAL> of movegen.cpp), the collaborator that supplies the     *)
(* moves the core is called with.                                          *)
(***************************************************************************)
PromotionTypes == {KNIGHT, BISHOP, ROOK, QUEEN}

\* generate_pawn_moves: target restricts pushes when evading a check.
generate_pawn_moves(P, us, evasions, target) ==
  LET them == Opp(us)
      up == pawn_push(us)
      pawns == pieces_cp(P, us, PAWN)
      pawnsOn7 == { s \in pawns : relative_rank(us, s) = 6 }
      pawnsNotOn7 == pawns \ pawnsOn7
      enemies == IF evasions THEN checkers(P) ELSE pieces_c(P, them)
      pushOk(to) == ~evasions \/ to \in target
      single == { make_move(s, s + up) : s \in { q \in pawnsNotOn7 : empty(P, q + up) /\ pushOk(q + up) } }
      double == { make_move(s, s + 2 * up) :
                    s \in { q \in pawnsNotOn7 : relative_rank(us, q) = 1 /\ empty(P, q + up)
                                                /\ empty(P, q + 2 * up) /\ pushOk(q + 2 * up) } }
      promoTo == { x \in pawnsOn7 \X Squares :
                        (x[2] \in pawn_attacks_bb(us, x[1]) /\ x[2] \in enemies)
                     \/ (x[2] = x[1] + up /\ empty(P, x[2]) /\ pushOk(x[2])) }
      promos == { make(PROMOTION, x[1], x[2], pt) : x \in promoTo, pt \in PromotionTypes }
      caps == { make_move(x[1], x[2]) :
                  x \in { y \in pawnsNotOn7 \X Squares :
                            y[2] \in pawn_attacks_bb(us, y[1]) /\ y[2] \in enemies } }
      eps == IF ep_square(P) = SQ_NONE \/ (evasions /\ (ep_square(P) + up) \in target)
             THEN {}
             ELSE { make(EN_PASSANT, s, ep_square(P), KNIGHT) :
                      s \in pawnsNotOn7 \cap pawn_attacks_bb(them, ep_square(P)) }
  IN  single \cup double \cup promos \cup caps \cup eps

\* generate_all for EVASIONS (the side to move is in check) or NON_EVASIONS.
generate_all(P, evasions) ==
  LET us == P.sideToMove
      ksq == square_king(P, us)
      target == IF evasions THEN between_bb(ksq, lsb(checkers(P))) ELSE Squares \ pieces_c(P, us)
      pieceMoves ==
        IF evasions /\ more_than_one(checkers(P)) THEN {}
        ELSE generate_pawn_moves(P, us, evasions, target)
             \cup { make_move(x[1], x[2]) :
                      x \in { y \in (pieces_c(P, us) \ (pieces_pt(P, PAWN) \cup pieces_pt(P, KING))) \X Squares :
                                y[2] \in target
                                /\ y[2] \in attacks_bb(type_of(piece_on(P, y[1])), y[1], pieces(P)) } }
      kingMoves == { make_move(ksq, to) : to \in attacks_bb(KING, ksq, {}) \ pieces_c(P, us) }
      castles ==
        IF evasions THEN {}
        ELSE { make(CASTLING, ksq, castling_rook_square(P, cr), KNIGHT) :
                 cr \in { x \in ColorRights(us, ANY_CASTLING) :
                            ~castling_impeded(P, x) /\ can_castle(P, {x}) } }
  IN  pieceMoves \cup kingMoves \cup castles

\* MoveList<EVASIONS> when in check, MoveList<NON_EVASIONS> otherwise.
PseudoLegalMoves(P) == generate_all(P, checkers(P) # {})

\* MoveList<LEGAL>
LegalMoves(P) ==
  LET us == P.sideToMove
      pinned == blockers_for_king(P, us) \cap pieces_c(P, us)
      ksq == square_king(P, us)
  IN  { m \in PseudoLegalMoves(P) :
          ~((from_sq(m) \in pinned \/ from_sq(m) = ksq \/ m.type = EN_PASSANT) /\ ~legal(P, m)) }


\* pseudo_legal() whose king test leaves the king on the board.
PseudoLegalKingStays(P, m) ==
  LET us == P.sideToMove
      from == from_sq(m)
      to == to_sq(m)
      pc == moved_piece(P, m)
  IN  IF m.type # NORMAL THEN m \in PseudoLegalMoves(P)
      ELSE IF pc = NO_PIECE \/ color_of(pc) # us THEN FALSE
      ELSE IF to \in pieces_c(P, us) THEN FALSE
      ELSE IF type_of(pc) = PAWN /\ rank_of(to) \in {0, 7} THEN FALSE
      ELSE IF /\ type_of(pc) = PAWN
              /\ ~(to \in pawn_attacks_bb(us, from) \cap pieces_c(P, Opp(us)))
              /\ ~(from + pawn_push(us) = to /\ empty(P, to))
              /\ ~(/\ from + 2 * pawn_push(us) = to
                   /\ relative_rank(us, from) = 1
                   /\ empty(P, to)
                   /\ empty(P, to - pawn_push(us)))
      THEN FALSE
      ELSE IF type_of(pc) # PAWN /\ to \notin attacks_bb(type_of(pc), from, pieces(P)) THEN FALSE
      ELSE IF checkers(P) = {} THEN TRUE
      ELSE IF type_of(pc) # KING
      THEN ~more_than_one(checkers(P)) /\ to \in between_bb(square_king(P, us), lsb(checkers(P)))
      ELSE attackers_to_occ(P, to, pieces(P)) \cap pieces_c(P, Opp(us)) = {}

\* pseudo_legal(m): moves that are not NORMAL are looked up in the generated
\* list; the promotion bits of a NORMAL move are not read.
pseudo_legal(P, m) ==
  LET us == P.sideToMove
      from == from_sq(m)
      to == to_sq(m)
      pc == moved_piece(P, m)
  IN  IF m.type # NORMAL THEN m \in PseudoLegalMoves(P)
      ELSE IF pc = NO_PIECE \/ color_of(pc) # us THEN FALSE
      ELSE IF to \in pieces_c(P, us) THEN FALSE
      ELSE IF type_of(pc) = PAWN /\ rank_of(to) \in {0, 7} THEN FALSE
      ELSE IF /\ type_of(pc) = PAWN
              /\ ~(to \in pawn_attacks_bb(us, from) \cap pieces_c(P, Opp(us)))
              /\ ~(from + pawn_push(us) = to /\ empty(P, to))
              /\ ~(/\ from + 2 * pawn_push(us) = to
                   /\ relative_rank(us, from) = 1
                   /\ empty(P, to)
                   /\ empty(P, to - pawn_push(us)))
      THEN FALSE
      ELSE IF type_of(pc) # PAWN /\ to \notin attacks_bb(type_of(pc), from, pieces(P)) THEN FALSE
      ELSE IF checkers(P) = {} THEN TRUE
      ELSE IF type_of(pc) # KING
      THEN ~more_than_one(checkers(P)) /\ to \in between_bb(square_king(P, us), lsb(checkers(P)))
      ELSE attackers_to_occ(P, to, BBXor(pieces(P), {from})) \cap pieces_c(P, Opp(us)) = {}
(***************************************************************************)
(* Position::is_draw(ply) and Position::has_repeated()                     *)
(***************************************************************************)
\* is_draw() that also counts a single earlier occurrence at the root itself.
IsDrawAtRoot(P, ply) ==
  IF St(P).rule50 > 99 /\ (checkers(P) = {} \/ LegalMoves(P) # {})
  THEN TRUE
  ELSE St(P).repetition # 0 /\ St(P).repetition <= ply

\* is_draw() that applies the fifty-move rule without looking for a mate.
IsDrawFiftyAlways(P, ply) ==
  IF St(P).rule50 > 99
  THEN TRUE
  ELSE St(P).repetition # 0 /\ St(P).repetition < ply

is_draw(P, ply) ==
  IF St(P).rule50 > 99 /\ (checkers(P) = {} \/ LegalMoves(P) # {})
  THEN TRUE
  ELSE St(P).repetition # 0 /\ St(P).repetition < ply

\* while (end-- >= 4): one test of the loop, with stc the state chain[k].
RECURSIVE HasRepeatedScan(_, _, _)
HasRepeatedScan(chain, k, end) ==
  IF end < 4 THEN FALSE
  ELSE IF chain[k].repetition # 0 THEN TRUE
  ELSE HasRepeatedScan(chain, k - 1, end - 1)

has_repeated(P) ==
  HasRepeatedScan(P.st, Len(P.st), Min({St(P).rule50, St(P).pliesFromNull}))
(***************************************************************************)
(* Position::see_ge(m, threshold): static exchange evaluation.  The loop   *)
(* is a recursion over its variables stm, occupied, attackers, swap, res.  *)
(***************************************************************************)
\* see_ge() that adds only the diagonal X-ray attackers behind a removed piece.
SeeXraysDiagonalOnly(P, to, occupied, pt) ==
  IF pt \in {PAWN, BISHOP, QUEEN}
  THEN attacks_bb(BISHOP, to, occupied) \cap pieces_pp(P, BISHOP, QUEEN)
  ELSE {}

\* The X-ray attackers added to 'attackers' after a piece of type pt is removed.
SeeXrays(P, to, occupied, pt) ==
       (IF pt \in {PAWN, BISHOP, QUEEN}
        THEN attacks_bb(BISHOP, to, occupied) \cap pieces_pp(P, BISHOP, QUEEN) ELSE {})
  \cup (IF pt \in {ROOK, QUEEN}
        THEN attacks_bb(ROOK, to, occupied) \cap pieces_pp(P, ROOK, QUEEN) ELSE {})

\* stmAttackers: pinned pieces do not attack as long as a pinner is on its square.
SeeStmAttackers(P, stm, occupied, attackers) ==
  IF pinners(P, Opp(stm)) \cap occupied # {}
  THEN (attackers \cap pieces_c(P, stm)) \ blockers_for_king(P, stm)
  ELSE attackers \cap pieces_c(P, stm)

\* The type the if / else-if chain selects: the least valuable attacker, KING last.
SeeLeastType(P, stmAttackers) ==
  Min({ pt \in PieceTypes : pt = KING \/ stmAttackers \cap pieces_pt(P, pt) # {} })

RECURSIVE SeeExchange(_, _, _, _, _, _, _)
RECURSIVE SeeCapture(_, _, _, _, _, _, _, _)
\* After the attacker of type pt is removed: the cut-off test, the X-rays and
\* the next iteration (stm = ~stm; attackers &= occupied).
SeeCapture(P, to, stm, occupied, attackers, swap, res, pt) ==
  IF swap < res
  THEN res = 1
  ELSE SeeExchange(P, to, Opp(stm), occupied,
                   (attackers \cup SeeXrays(P, to, occupied, pt)) \cap occupied, swap, res)

\* One iteration from the test of stmAttackers on; res is the value before res ^= 1.
SeeExchange(P, to, stm, occupied, attackers, swap, res) ==
  IF SeeStmAttackers(P, stm, occupied, attackers) = {}
  THEN res = 1
  ELSE IF SeeLeastType(P, SeeStmAttackers(P, stm, occupied, attackers)) = KING
  THEN (IF attackers \ pieces_c(P, stm) # {} THEN res = 1 ELSE res = 0)
  ELSE SeeCapture(P, to, stm,
                  BBXor(occupied,
                        {lsb(SeeStmAttackers(P, stm, occupied, attackers)
                               \cap pieces_pt(P, SeeLeastType(P, SeeStmAttackers(P, stm, occupied, attackers))))}),
                  attackers,
                  PieceValueMg[SeeLeastType(P, SeeStmAttackers(P, stm, occupied, attackers))] - swap,
                  1 - res,
                  SeeLeastType(P, SeeStmAttackers(P, stm, occupied, attackers)))

\* occupied = pieces() ^ from ^ to; attackers = attackers_to(to, occupied); the loop.
SeeGeLoop(P, m, swap) ==
  SeeExchange(P, to_sq(m), Opp(P.sideToMove),
              BBXor(BBXor(pieces(P), {from_sq(m)}), {to_sq(m)}),
              attackers_to_occ(P, to_sq(m), BBXor(BBXor(pieces(P), {from_sq(m)}), {to_sq(m)}))
                \cap BBXor(BBXor(pieces(P), {from_sq(m)}), {to_sq(m)}),
              swap, 1)

\* swap = PieceValue[MG][piece_on(from)] - swap; if (swap <= 0) return true;
SeeGeMoved(P, m, swap) == IF swap <= 0 THEN TRUE ELSE SeeGeLoop(P, m, swap)

\* swap = PieceValue[MG][piece_on(to)] - threshold; if (swap < 0) return false;
SeeGeCaptured(P, m, swap) ==
  IF swap < 0 THEN FALSE
  ELSE SeeGeMoved(P, m, PieceValue(piece_on(P, from_sq(m))) - swap)

\* see_ge() that lets every move pass that is not NORMAL.
SeeGeOthersPass(P, m, threshold) ==
  IF m.type # NORMAL
  THEN TRUE
  ELSE SeeGeCaptured(P, m, PieceValue(piece_on(P, to_sq(m))) - threshold)

see_ge(P, m, threshold) ==
  IF m.type # NORMAL
  THEN 0 >= threshold
  ELSE SeeGeCaptured(P, m, PieceValue(piece_on(P, to_sq(m))) - threshold)


MaxSeeSteps == 64

\* The loop of see_ge that leaves the capturing piece on occupied.
RECURSIVE SeeStepsKeepsAttacker(_, _, _, _, _, _, _, _)
SeeStepsKeepsAttacker(P, to, stm, occupied, attackers, swap, res, n) ==
  LET stmAttackers == SeeStmAttackers(P, stm, occupied, attackers)
      pt == SeeLeastType(P, stmAttackers)
      sq == lsb(stmAttackers \cap pieces_pt(P, pt))
      pass == [stm |-> stm, sq |-> sq, occupied |-> occupied, after |-> occupied]
  IN  IF n >= MaxSeeSteps
      THEN [ended |-> FALSE, result |-> FALSE, removed |-> <<>>]
      ELSE IF stmAttackers = {}
      THEN [ended |-> TRUE, result |-> res = 1, removed |-> <<>>]
      ELSE IF pt = KING
      THEN [ended |-> TRUE,
            result |-> (IF attackers \ pieces_c(P, stm) # {} THEN res = 1 ELSE res = 0),
            removed |-> <<>>]
      ELSE IF PieceValueMg[pt] - swap < 1 - res
      THEN [ended |-> TRUE, result |-> 1 - res = 1, removed |-> <<pass>>]
      ELSE [SeeStepsKeepsAttacker(P, to, Opp(stm), pass.after,
                     (attackers \cup SeeXrays(P, to, pass.after, pt)) \cap pass.after,
                     PieceValueMg[pt] - swap, 1 - res, n + 1)
              EXCEPT !.removed = <<pass>> \o @]

\* The loop of see_ge with its iterations written down: each entry of
\* removed is one pass that took an attacker off occupied (the side that
\* captured, the square, occupied before and after); ended is FALSE when
\* the loop is still running after MaxSeeSteps passes.
RECURSIVE SeeSteps(_, _, _, _, _, _, _, _)
SeeSteps(P, to, stm, occupied, attackers, swap, res, n) ==
  LET stmAttackers == SeeStmAttackers(P, stm, occupied, attackers)
      pt == SeeLeastType(P, stmAttackers)
      sq == lsb(stmAttackers \cap pieces_pt(P, pt))
      pass == [stm |-> stm, sq |-> sq, occupied |-> occupied, after |-> BBXor(occupied, {sq})]
  IN  IF n >= MaxSeeSteps
      THEN [ended |-> FALSE, result |-> FALSE, removed |-> <<>>]
      ELSE IF stmAttackers = {}
      THEN [ended |-> TRUE, result |-> res = 1, removed |-> <<>>]
      ELSE IF pt = KING
      THEN [ended |-> TRUE,
            result |-> (IF attackers \ pieces_c(P, stm) # {} THEN res = 1 ELSE res = 0),
            removed |-> <<>>]
      ELSE IF PieceValueMg[pt] - swap < 1 - res
      THEN [ended |-> TRUE, result |-> 1 - res = 1, removed |-> <<pass>>]
      ELSE [SeeSteps(P, to, Opp(stm), pass.after,
                     (attackers \cup SeeXrays(P, to, pass.after, pt)) \cap pass.after,
                     PieceValueMg[pt] - swap, 1 - res, n + 1)
              EXCEPT !.removed = <<pass>> \o @]

\* see_ge(m, threshold) with the passes of its loop.
SeeGeSteps(P, m, t) ==
  IF m.type # NORMAL
  THEN [ended |-> TRUE, result |-> 0 >= t, removed |-> <<>>]
  ELSE IF PieceValue(piece_on(P, to_sq(m))) - t < 0
  THEN [ended |-> TRUE, result |-> FALSE, removed |-> <<>>]
  ELSE IF PieceValue(piece_on(P, from_sq(m))) - (PieceValue(piece_on(P, to_sq(m))) - t) <= 0
  THEN [ended |-> TRUE, result |-> TRUE, removed |-> <<>>]
  ELSE SeeSteps(P, to_sq(m), Opp(P.sideToMove),
                BBXor(BBXor(pieces(P), {from_sq(m)}), {to_sq(m)}),
                attackers_to_occ(P, to_sq(m), BBXor(BBXor(pieces(P), {from_sq(m)}), {to_sq(m)}))
                  \cap BBXor(BBXor(pieces(P), {from_sq(m)}), {to_sq(m)}),
                PieceValue(piece_on(P, from_sq(m))) - (PieceValue(piece_on(P, to_sq(m))) - t),
                1, 0)
(***************************************************************************)
(* The positions the driver starts from, as FEN strings.                   *)
(***************************************************************************)
\* the standard start position: "rnbqkbnr/pppppppp/8/8/8/8/PPPPPPPP/RNBQKBNR w KQkq - 0 1"
FenStart ==
  <<"r", "n", "b", "q", "k", "b", "n", "r", "/", "p", "p", "p", "p", "p", "p", "p", "p", "/", "8", "/", "8", "/", "8", "/", "8", "/", "P", "P", "P", "P", "P", "P", "P", "P", "/", "R", "N", "B", "Q", "K", "B", "N", "R", " ", "w", " ", "K", "Q", "k", "q", " ", "-", " ", "0", " ", "1">>

\* castling rights on both sides: "r3k3/p7/8/8/8/8/7P/4K2R w Kq - 0 1"
FenCastle ==
  <<"r", "3", "k", "3", "/", "p", "7", "/", "8", "/", "8", "/", "8", "/", "8", "/", "7", "P", "/", "4", "K", "2", "R", " ", "w", " ", "K", "q", " ", "-", " ", "0", " ", "1">>

\* Chess960: king b1 between rooks a1 and h1: "1k6/8/8/8/8/8/P6P/RK5R w HA - 3 5"
FenCastle960 ==
  <<"1", "k", "6", "/", "8", "/", "8", "/", "8", "/", "8", "/", "8", "/", "P", "6", "P", "/", "R", "K", "5", "R", " ", "w", " ", "H", "A", " ", "-", " ", "3", " ", "5">>

\* Chess960: king f1 and rook g1 change places: "4k3/8/8/8/8/8/8/5KR1 w G - 0 1"
FenSwap960 ==
  <<"4", "k", "3", "/", "8", "/", "8", "/", "8", "/", "8", "/", "8", "/", "8", "/", "5", "K", "R", "1", " ", "w", " ", "G", " ", "-", " ", "0", " ", "1">>

\* promotion, capture with promotion, en passant after d2d4: "2n1k3/1P6/8/8/2p5/8/3P4/4K3 w - - 0 1"
FenPawns ==
  <<"2", "n", "1", "k", "3", "/", "1", "P", "6", "/", "8", "/", "8", "/", "2", "p", "5", "/", "8", "/", "3", "P", "4", "/", "4", "K", "3", " ", "w", " ", "-", " ", "-", " ", "0", " ", "1">>

\* a rook pinned to its king on the e-file: "4k3/8/8/8/4r3/8/4R3/4K3 w - - 10 20"
FenPin ==
  <<"4", "k", "3", "/", "8", "/", "8", "/", "8", "/", "4", "r", "3", "/", "8", "/", "4", "R", "3", "/", "4", "K", "3", " ", "w", " ", "-", " ", "-", " ", "1", "0", " ", "2", "0">>

\* discovered and double check by the knight on e3: "8/4k3/8/8/8/4N3/8/4RK2 w - - 0 1"
FenDiscover ==
  <<"8", "/", "4", "k", "3", "/", "8", "/", "8", "/", "8", "/", "4", "N", "3", "/", "8", "/", "4", "R", "K", "2", " ", "w", " ", "-", " ", "-", " ", "0", " ", "1">>

\* en passant square from the FEN; the capture would expose the king: "8/8/8/8/k2pP2R/8/8/4K3 b - e3 0 7"
FenEpPinned ==
  <<"8", "/", "8", "/", "8", "/", "8", "/", "k", "2", "p", "P", "2", "R", "/", "8", "/", "8", "/", "4", "K", "3", " ", "b", " ", "-", " ", "e", "3", " ", "0", " ", "7">>

\* a rook that mates on h8 or checks on a1, the halfmove clock at 99:
\* "k7/8/1K6/8/8/8/8/7R w - - 99 80"
FenMate50 ==
  <<"k", "7", "/", "8", "/", "1", "K", "6", "/", "8", "/", "8", "/", "8", "/", "8", "/", "7", "R", " ", "w", " ", "-", " ", "-", " ", "9", "9", " ", "8", "0">>

\* a knight that leaves the a-file and returns to it behind a rook:
\* "r3k3/8/N7/8/8/8/8/4K3 w - - 0 1"
FenBlocked ==
  <<"r", "3", "k", "3", "/", "8", "/", "N", "7", "/", "8", "/", "8", "/", "8", "/", "8", "/", "4", "K", "3", " ", "w", " ", "-", " ", "-", " ", "0", " ", "1">>

\* the shuffling position handed over with the halfmove clock at 120:
\* "1k4n1/8/8/8/8/8/8/1K4N1 w - - 120 80"
FenLate ==
  <<"1", "k", "4", "n", "1", "/", "8", "/", "8", "/", "8", "/", "8", "/", "8", "/", "8", "/", "1", "K", "4", "N", "1", " ", "w", " ", "-", " ", "-", " ", "1", "2", "0", " ", "8", "0">>

\* all four castling rights, the rooks facing each other on open files:
\* "r3k2r/8/8/8/8/8/8/R3K2R w KQkq - 0 1"
FenRooks ==
  <<"r", "3", "k", "2", "r", "/", "8", "/", "8", "/", "8", "/", "8", "/", "8", "/", "8", "/", "R", "3", "K", "2", "R", " ", "w", " ", "K", "Q", "k", "q", " ", "-", " ", "0", " ", "1">>

\* a black pawn that can push past a white one, and a white pawn far from it:
\* "4k3/3p4/8/4P3/8/8/P7/4K3 b - - 0 1"
FenPush ==
  <<"4", "k", "3", "/", "3", "p", "4", "/", "8", "/", "4", "P", "3", "/", "8", "/", "8", "/", "P", "7", "/", "4", "K", "3", " ", "b", " ", "-", " ", "-", " ", "0", " ", "1">>

\* a pawn that promotes with or without a capture and is taken at once:
\* "r2qk3/1P6/8/8/8/8/8/4K3 w - - 0 1"
FenRetake ==
  <<"r", "2", "q", "k", "3", "/", "1", "P", "6", "/", "8", "/", "8", "/", "8", "/", "8", "/", "8", "/", "4", "K", "3", " ", "w", " ", "-", " ", "-", " ", "0", " ", "1">>

\* a pawn on the seventh rank pinned along the rank: "8/K2P3r/8/8/8/8/8/7k w - - 0 1"
FenPromoPinned ==
  <<"8", "/", "K", "2", "P", "3", "r", "/", "8", "/", "8", "/", "8", "/", "8", "/", "8", "/", "7", "k", " ", "w", " ", "-", " ", "-", " ", "0", " ", "1">>

\* a check on the file that only a pinned knight could block: "4r2k/8/8/b7/8/8/3N4/4K3 w - - 0 1"
FenCheckPinned ==
  <<"4", "r", "2", "k", "/", "8", "/", "8", "/", "b", "7", "/", "8", "/", "8", "/", "3", "N", "4", "/", "4", "K", "3", " ", "w", " ", "-", " ", "-", " ", "0", " ", "1">>

\* a double push that gives check and can be captured en passant: "4k3/8/8/1Pp5/3K4/8/8/8 w - c6 0 2"
FenEpEvasion ==
  <<"4", "k", "3", "/", "8", "/", "8", "/", "1", "P", "p", "5", "/", "3", "K", "4", "/", "8", "/", "8", "/", "8", " ", "w", " ", "-", " ", "c", "6", " ", "0", " ", "2">>

\* an en passant capture that gives check with the pawn: "8/2k5/8/3pP3/8/8/8/4K3 w - d6 0 2"
FenEpCheck ==
  <<"8", "/", "2", "k", "5", "/", "8", "/", "3", "p", "P", "3", "/", "8", "/", "8", "/", "8", "/", "4", "K", "3", " ", "w", " ", "-", " ", "d", "6", " ", "0", " ", "2">>

\* an en passant capture that clears the rank between rook and king: "8/8/8/R2pP2k/8/8/8/4K3 w - d6 0 2"
FenEpDiscover ==
  <<"8", "/", "8", "/", "8", "/", "R", "2", "p", "P", "2", "k", "/", "8", "/", "8", "/", "8", "/", "4", "K", "3", " ", "w", " ", "-", " ", "d", "6", " ", "0", " ", "2">>

\* a promotion that gives check through the square the pawn leaves: "8/4P3/8/4k3/8/8/8/K7 w - - 0 1"
FenPromoThrough ==
  <<"8", "/", "4", "P", "3", "/", "8", "/", "4", "k", "3", "/", "8", "/", "8", "/", "8", "/", "K", "7", " ", "w", " ", "-", " ", "-", " ", "0", " ", "1">>

\* knights and kings that can shuffle to and fro: "1k4n1/8/8/8/8/8/8/1K4N1 w - - 0 1"
FenShuffle ==
  <<"1", "k", "4", "n", "1", "/", "8", "/", "8", "/", "8", "/", "8", "/", "8", "/", "8", "/", "1", "K", "4", "N", "1", " ", "w", " ", "-", " ", "-", " ", "0", " ", "1">>

\* the same with the halfmove clock at 94: "1k4n1/8/8/8/8/8/8/1K4N1 w - - 94 60"
FenShuffle50 ==
  <<"1", "k", "4", "n", "1", "/", "8", "/", "8", "/", "8", "/", "8", "/", "8", "/", "8", "/", "1", "K", "4", "N", "1", " ", "w", " ", "-", " ", "-", " ", "9", "4", " ", "6", "0">>

\* an exchange on e5 in which Black's pawn capture opens the line of White's bishop and queen: "1Q2r3/2B4k/3p4/4p3/8/5N2/8/K7 w - - 0 1"
FenSeeXray ==
  <<"1", "Q", "2", "r", "3", "/", "2", "B", "4", "k", "/", "3", "p", "4", "/", "4", "p", "3", "/", "8", "/", "5", "N", "2", "/", "8", "/", "K", "7", " ", "w", " ", "-", " ", "-", " ", "0", " ", "1">>

\* the defender of e5 is pinned by a rook that takes no part: "3k4/8/3p4/4p3/8/5N2/8/K2R4 w - - 0 1"
FenSeePinned ==
  <<"3", "k", "4", "/", "8", "/", "3", "p", "4", "/", "4", "p", "3", "/", "8", "/", "5", "N", "2", "/", "8", "/", "K", "2", "R", "4", " ", "w", " ", "-", " ", "-", " ", "0", " ", "1">>

\* the pinner of the knight that defends e5 attacks e5 itself: "4k3/3n4/5p2/1Q2p3/3P4/8/8/K7 w - - 0 1"
FenSeePinner ==
  <<"4", "k", "3", "/", "3", "n", "4", "/", "5", "p", "2", "/", "1", "Q", "2", "p", "3", "/", "3", "P", "4", "/", "8", "/", "8", "/", "K", "7", " ", "w", " ", "-", " ", "-", " ", "0", " ", "1">>

\* e5 is defended by the king alone, with and without a second attacker: "8/8/3k4/4p3/8/5N2/8/K3R3 w - - 0 1"
FenSeeKing ==
  <<"8", "/", "8", "/", "3", "k", "4", "/", "4", "p", "3", "/", "8", "/", "5", "N", "2", "/", "8", "/", "K", "3", "R", "3", " ", "w", " ", "-", " ", "-", " ", "0", " ", "1">>

\* queen in front of rook against pawn and rook: "4r2k/8/3p4/4p3/8/8/4Q3/K3R3 w - - 0 1"
FenSeeBattery ==
  <<"4", "r", "2", "k", "/", "8", "/", "3", "p", "4", "/", "4", "p", "3", "/", "8", "/", "8", "/", "4", "Q", "3", "/", "K", "3", "R", "3", " ", "w", " ", "-", " ", "-", " ", "0", " ", "1">>

\* four attackers against four defenders: "4r2k/4q3/2np4/4p3/3P4/5N2/4R3/K3R3 w - - 0 1"
FenSeeFour ==
  <<"4", "r", "2", "k", "/", "4", "q", "3", "/", "2", "n", "p", "4", "/", "4", "p", "3", "/", "3", "P", "4", "/", "5", "N", "2", "/", "4", "R", "3", "/", "K", "3", "R", "3", " ", "w", " ", "-", " ", "-", " ", "0", " ", "1">>

\* Black to move captures on e4: "k7/8/5n2/8/4P3/3P4/8/7K b - - 0 1"
FenSeeBlack ==
  <<"k", "7", "/", "8", "/", "5", "n", "2", "/", "8", "/", "4", "P", "3", "/", "3", "P", "4", "/", "8", "/", "7", "K", " ", "b", " ", "-", " ", "-", " ", "0", " ", "1">>

\* a bishop behind the capturing pawn: "7k/8/3p4/4p3/3P4/2B2N2/8/K7 w - - 0 1"
FenSeeBishop ==
  <<"7", "k", "/", "8", "/", "3", "p", "4", "/", "4", "p", "3", "/", "3", "P", "4", "/", "2", "B", "2", "N", "2", "/", "8", "/", "K", "7", " ", "w", " ", "-", " ", "-", " ", "0", " ", "1">>

\* The deepest nesting of do_move / do_null_move calls the driver makes from
\* most roots, along the opening lines of the start position, and in the
\* shuffling positions.
MaxDepth == 2

MaxLine == 3

MaxShuffle == 8

\* The depth of the search that asks has_game_cycle().
MaxCycle == 5

\* The largest search ply is_draw() is queried with.
MaxPly == 4

\* The length of the game that is played on past the fifty-move limit.
MaxLong == 101

\* The largest ply is_draw() is called with.
MaxDrawPly == 6

\* Each root: the FEN, the Chess960 flag, the squares the driver moves
\* pieces between (every square unless the position is explored along a few
\* lines only), and the depth it is explored to.
Roots ==
  <<
    [fen |-> FenStart, chess960 |-> FALSE, squares |-> {12, 20, 28, 11, 19, 27, 6, 21, 52, 44, 36, 51, 43, 35, 62, 45}, depth |-> MaxLine],
    [fen |-> FenCastle, chess960 |-> FALSE, squares |-> Squares, depth |-> MaxDepth],
    [fen |-> FenCastle960, chess960 |-> TRUE, squares |-> Squares, depth |-> MaxDepth],
    [fen |-> FenSwap960, chess960 |-> TRUE, squares |-> Squares, depth |-> MaxDepth],
    [fen |-> FenPawns, chess960 |-> FALSE, squares |-> Squares, depth |-> MaxDepth],
    [fen |-> FenPin, chess960 |-> FALSE, squares |-> Squares, depth |-> MaxDepth],
    [fen |-> FenDiscover, chess960 |-> FALSE, squares |-> Squares, depth |-> MaxDepth],
    [fen |-> FenEpPinned, chess960 |-> FALSE, squares |-> Squares, depth |-> MaxDepth],
    [fen |-> FenShuffle, chess960 |-> FALSE, squares |-> {6, 21, 62, 45, 1, 0, 57, 56}, depth |-> MaxShuffle],
    [fen |-> FenShuffle50, chess960 |-> FALSE, squares |-> {6, 21, 62, 45, 1, 0, 57, 56}, depth |-> MaxShuffle],
    [fen |-> FenSeeXray, chess960 |-> FALSE, squares |-> Squares, depth |-> 0],
    [fen |-> FenSeePinned, chess960 |-> FALSE, squares |-> Squares, depth |-> 0],
    [fen |-> FenSeePinner, chess960 |-> FALSE, squares |-> Squares, depth |-> 0],
    [fen |-> FenSeeKing, chess960 |-> FALSE, squares |-> Squares, depth |-> 0],
    [fen |-> FenSeeBattery, chess960 |-> FALSE, squares |-> Squares, depth |-> 0],
    [fen |-> FenSeeFour, chess960 |-> FALSE, squares |-> Squares, depth |-> 0],
    [fen |-> FenSeeBlack, chess960 |-> FALSE, squares |-> Squares, depth |-> 0],
    [fen |-> FenSeeBishop, chess960 |-> FALSE, squares |-> Squares, depth |-> 0],
    [fen |-> FenShuffle, chess960 |-> FALSE, squares |-> {6, 21, 62, 45, 1, 0, 57, 56}, depth |-> MaxCycle],
    [fen |-> FenPin, chess960 |-> FALSE, squares |-> {12, 28, 60, 59}, depth |-> MaxDepth],
    [fen |-> FenShuffle, chess960 |-> FALSE, squares |-> {6, 21, 62, 45}, depth |-> MaxDepth],
    [fen |-> FenShuffle, chess960 |-> FALSE, squares |-> {1, 0, 57, 56}, depth |-> MaxShuffle],
    [fen |-> FenShuffle50, chess960 |-> FALSE, squares |-> {1, 0, 57, 56}, depth |-> MaxShuffle],
    [fen |-> FenMate50, chess960 |-> FALSE, squares |-> {7, 63, 0, 56, 57}, depth |-> MaxDepth],
    [fen |-> FenBlocked, chess960 |-> FALSE, squares |-> {40, 25, 56, 32}, depth |-> MaxCycle],
    [fen |-> FenShuffle, chess960 |-> FALSE, squares |-> {1, 0, 57, 56}, depth |-> MaxLong],
    [fen |-> FenLate, chess960 |-> FALSE, squares |-> {1, 0, 57, 56}, depth |-> MaxDepth],
    [fen |-> FenRooks, chess960 |-> FALSE, squares |-> {0, 7, 56, 63, 4, 60, 3, 59}, depth |-> MaxDepth],
    [fen |-> FenPush, chess960 |-> FALSE, squares |-> {51, 43, 35, 36, 8, 16, 24}, depth |-> MaxDepth],
    [fen |-> FenRetake, chess960 |-> FALSE, squares |-> {49, 56, 57, 59}, depth |-> MaxDepth],
    [fen |-> FenPromoPinned, chess960 |-> FALSE, squares |-> {51, 59, 48, 40, 49}, depth |-> MaxDepth],
    [fen |-> FenCheckPinned, chess960 |-> FALSE, squares |-> {11, 28, 4, 3, 5}, depth |-> MaxDepth],
    [fen |-> FenEpEvasion, chess960 |-> FALSE, squares |-> {33, 42, 27, 34, 35, 26}, depth |-> MaxDepth],
    [fen |-> FenEpCheck, chess960 |-> FALSE, squares |-> {36, 43, 44, 50, 58}, depth |-> MaxDepth],
    [fen |-> FenEpDiscover, chess960 |-> FALSE, squares |-> {36, 43, 44, 39, 47}, depth |-> MaxDepth],
    [fen |-> FenPromoThrough, chess960 |-> FALSE, squares |-> {52, 60, 36, 27}, depth |-> MaxDepth]
  >>

\* The roots of the general exploration (among them one with the halfmove
\* clock at 99, one with all four castling rights, and positions with pinned
\* pieces and checks) and those of the shuffling games.
MainRoots == (1..8) \cup {24} \cup (28..36)

ShuffleRoots == 9..10

\* The positions see_ge is called in.
SeeRoots == 11..18

\* The positions searched once init() has run.
CycleRoots == {19, 25}

\* The positions is_draw and has_repeated are asked about: the kings alone
\* shuffle, with the clock at 0 and at 94, and the mate at the hundredth ply.
DrawRoots == 22..24

\* The kings shuffling on beyond the hundredth ply, and from a clock at 120.
LongRoots == 26..27

(***************************************************************************)
(* The state machine: a driver (the search) that owns the StateInfo        *)
(* storage, makes legal moves and null moves and takes them back in LIFO   *)
(* order.                                                                  *)
(*   pos      the Position object with its state chain                     *)
(*   stack    the moves made and not yet undone (MOVE_NULL for a null move)*)
(*   snaps    the position recorded before each of those calls             *)
(*   expect   the position recorded before the call undone last            *)
(*   lastOp   the operation performed last, lastMove its move argument     *)
(*   unwound  the number of undo calls made since the last do call         *)
(*   root     the index in Roots of the position set() was called with     *)
(*   threshold, seeResult  the argument and the result of the last see_ge   *)
(*   cuckoo, cuckooMove  the two global arrays Position::init() prepares   *)
(*   initFrame  the local variables of Position::init()                    *)
(*   cyclePly, cycle  the argument and result of the last has_game_cycle   *)
(*   workers    the search workers: each its Position object, its pointer *)
(*              st and its node counter                                    *)
(*   heap       the StateInfo records the workers' callers supply, by      *)
(*              address, each with its pointer previous                    *)
(*   input, outcome  the string set() was called with and how it ended     *)
(*   drawPly, draw  the argument and the result of the last is_draw        *)
(*   repeated   the result of the last has_repeated                        *)
(* The specifications that start at set() call neither init() nor          *)
(* has_game_cycle() and leave the cuckoo arrays out (empty tuples);        *)
(* SpecInit carries them.  Only SpecWorkers has workers; the others have   *)
(* the one position pos, whose chain is the sequence pos.st.               *)
(***************************************************************************)
VARIABLES pos, stack, snaps, expect, lastOp, lastMove, unwound, root, threshold, seeResult,
          cuckoo, cuckooMove, initFrame, cyclePly, cycle, workers, heap, input, outcome,
          drawPly, draw, repeated

vars == <<pos, stack, snaps, expect, lastOp, lastMove, unwound, root, threshold, seeResult,
          cuckoo, cuckooMove, initFrame, cyclePly, cycle, workers, heap, input, outcome,
          drawPly, draw, repeated>>

\* The variables only init() and has_game_cycle() deal with.
cuckooVars == <<cuckoo, cuckooMove, initFrame, cyclePly, cycle>>

\* The variables of the specification with two search workers.
workerVars == <<workers, heap>>

\* The string set() was called with and the way the call ended.
setVars == <<input, outcome>>

\* The argument and the result of the last is_draw, the result of the last
\* has_repeated.
drawVars == <<drawPly, draw, repeated>>

MOVE_NONE == make_move(0, 0)

MOVE_NULL == make_move(1, 1)

RootPosition(r) == set(Roots[r].fen, Roots[r].chess960)

InitAt(R) ==
  \E r \in R :
     /\ root = r
     /\ pos = RootPosition(r)
     /\ stack = <<>>
     /\ snaps = <<>>
     /\ expect = RootPosition(r)
     /\ lastOp = "set"
     /\ lastMove = MOVE_NONE
     /\ unwound = 0
     /\ threshold = 0
     /\ seeResult = FALSE
     /\ cuckoo = <<>>
     /\ cuckooMove = <<>>
     /\ initFrame = <<>>
     /\ cyclePly = 0
     /\ cycle = FALSE
     /\ workers = <<>>
     /\ heap = <<>>
     /\ input = Roots[r].fen
     /\ outcome = "returned"
     /\ drawPly = 0
     /\ draw = FALSE
     /\ repeated = FALSE

Init == InitAt(MainRoots)

\* The moves the driver may make in P.
DriverMoves(P, r) ==
  { m \in LegalMoves(P) : from_sq(m) \in Roots[r].squares /\ to_sq(m) \in Roots[r].squares }

DoMove ==
  /\ Len(stack) < Roots[root].depth
  /\ \E m \in DriverMoves(pos, root) :
        /\ pos' = do_move(pos, m, gives_check(pos, m))
        /\ stack' = Append(stack, m)
        /\ lastMove' = m
  /\ snaps' = Append(snaps, pos)
  /\ lastOp' = "do_move"
  /\ unwound' = 0
  /\ UNCHANGED <<expect, root, threshold, seeResult, cuckooVars, workerVars, setVars, drawVars>>

UndoMove ==
  /\ stack # <<>>
  /\ stack[Len(stack)] # MOVE_NULL
  /\ pos' = undo_move(pos, stack[Len(stack)])
  /\ lastMove' = stack[Len(stack)]
  /\ stack' = SubSeq(stack, 1, Len(stack) - 1)
  /\ expect' = snaps[Len(snaps)]
  /\ snaps' = SubSeq(snaps, 1, Len(snaps) - 1)
  /\ lastOp' = "undo_move"
  /\ unwound' = unwound + 1
  /\ UNCHANGED <<root, threshold, seeResult, cuckooVars, workerVars, setVars, drawVars>>

DoNullMove ==
  /\ Len(stack) < Roots[root].depth
  /\ checkers(pos) = {}
  /\ pos' = do_null_move(pos)
  /\ stack' = Append(stack, MOVE_NULL)
  /\ snaps' = Append(snaps, pos)
  /\ lastMove' = MOVE_NULL
  /\ lastOp' = "do_null_move"
  /\ unwound' = 0
  /\ UNCHANGED <<expect, root, threshold, seeResult, cuckooVars, workerVars, setVars, drawVars>>

UndoNullMove ==
  /\ stack # <<>>
  /\ stack[Len(stack)] = MOVE_NULL
  /\ pos' = undo_null_move(pos)
  /\ lastMove' = MOVE_NULL
  /\ stack' = SubSeq(stack, 1, Len(stack) - 1)
  /\ expect' = snaps[Len(snaps)]
  /\ snaps' = SubSeq(snaps, 1, Len(snaps) - 1)
  /\ lastOp' = "undo_null_move"
  /\ unwound' = unwound + 1
  /\ UNCHANGED <<root, threshold, seeResult, cuckooVars, workerVars, setVars, drawVars>>

Next == DoMove \/ UndoMove \/ DoNullMove \/ UndoNullMove

Spec == Init /\ [][Next]_vars

\* The shuffling games: moves and null moves only, to the depth at which a
\* position can occur three times.
InitShuffle == InitAt(ShuffleRoots)

NextShuffle == DoMove \/ DoNullMove

SpecShuffle == InitShuffle /\ [][NextShuffle]_vars


\* The thresholds see_ge is called with: the balances of exchanges of up to
\* four pieces, and the values just above them.
SeeBalances ==
  LET V == {0} \cup { PieceValueMg[pt] : pt \in PieceTypes }
  IN  { x[1] - x[2] + x[3] - x[4] : x \in V \X V \X V \X V }

SeeThresholds == SeeBalances \cup { v + 1 : v \in SeeBalances }

\* The NORMAL captures of the side to move.
NormalCaptures(P) ==
  { m \in LegalMoves(P) : m.type = NORMAL /\ piece_on(P, to_sq(m)) # NO_PIECE }

\* A caller asks see_ge(m, threshold) about a capture of the position.
SeeGe ==
  /\ lastOp = "set"
  /\ \E m \in NormalCaptures(pos) : \E t \in SeeThresholds :
        /\ lastMove' = m
        /\ threshold' = t
        /\ seeResult' = see_ge(pos, m, t)
  /\ lastOp' = "see_ge"
  /\ UNCHANGED <<pos, stack, snaps, expect, unwound, root, cuckooVars, workerVars, setVars, drawVars>>

InitSee == InitAt(SeeRoots)

NextSee == SeeGe

SpecSee == InitSee /\ [][NextSee]_vars
(***************************************************************************)
(* Position::init(): the preparation of the cuckoo tables.  The Zobrist    *)
(* keys it assigns first are the constants above.  One step of InitLoop is *)
(* the body of the outermost loop for one piece; initFrame holds the       *)
(* locals of init() at the start of a while (true) iteration: the index pc *)
(* into Pieces[], s1, s2, the key and the move in hand, the slot i to swap *)
(* them into, and count.                                                   *)
(***************************************************************************)
CuckooSize == 8192

H1(h) == SumSet({ 2 ^ b : b \in h \cap (0..12) })

H2(h) == SumSet({ 2 ^ (b - 16) : b \in h \cap (16..28) })

PiecesInOrder ==
  <<make_piece(WHITE, PAWN), make_piece(WHITE, KNIGHT), make_piece(WHITE, BISHOP),
    make_piece(WHITE, ROOK), make_piece(WHITE, QUEEN), make_piece(WHITE, KING),
    make_piece(BLACK, PAWN), make_piece(BLACK, KNIGHT), make_piece(BLACK, BISHOP),
    make_piece(BLACK, ROOK), make_piece(BLACK, QUEEN), make_piece(BLACK, KING)>>

\* The test of the innermost loop, leaving out the kings with the pawns.
CuckooTargetsNoKing(pc, s1) ==
  IF type_of(pc) \notin {PAWN, KING}
  THEN { s2 \in attacks_bb(type_of(pc), s1, {}) : s2 > s1 }
  ELSE {}

\* The squares s2 > s1 that pass the test of the innermost loop.
CuckooTargets(pc, s1) ==
  IF type_of(pc) # PAWN
  THEN { s2 \in attacks_bb(type_of(pc), s1, {}) : s2 > s1 }
  ELSE {}

\* The pairs (index into Pieces[], s1), numbered in loop order, for which
\* the innermost loop inserts something.
CuckooRows ==
  { e \in 0..(64 * Len(PiecesInOrder) - 1) :
      CuckooTargets(PiecesInOrder[(e \div 64) + 1], e % 64) # {} }

\* The first element of S above n, or -1.
FirstAbove(S, n) ==
  IF \E x \in S : x > n
  THEN CHOOSE x \in S : x > n /\ \A y \in (n + 1)..(x - 1) : y \notin S
  ELSE -1

\* The locals at the start of the while loop for pc = Pieces[k], s1, s2.
InitEnter(k, s1, s2, count) ==
  [at |-> "loop", pc |-> k, s1 |-> s1, s2 |-> s2, count |-> count,
   move |-> make_move(s1, s2),
   key |-> KeyXor(KeyXor(Zobrist_psq(PiecesInOrder[k], s1), Zobrist_psq(PiecesInOrder[k], s2)),
                  ZobristSide),
   i |-> H1(KeyXor(KeyXor(Zobrist_psq(PiecesInOrder[k], s1), Zobrist_psq(PiecesInOrder[k], s2)),
                   ZobristSide))]

\* The locals once the three loops are left.
InitLeft(count) ==
  [at |-> "done", pc |-> Len(PiecesInOrder) + 1, s1 |-> SQ_NONE, s2 |-> SQ_NONE, count |-> count,
   move |-> MOVE_NONE, key |-> {}, i |-> 0]

\* The loops advance from (k, s1, s2) to the next triple that passes the test.
InitAdvanceRow(e, count) ==
  IF e = -1 THEN InitLeft(count)
  ELSE InitEnter((e \div 64) + 1, e % 64,
                 FirstAbove(CuckooTargets(PiecesInOrder[(e \div 64) + 1], e % 64), e % 64), count)

InitAdvance(k, s1, s2, count) ==
  IF FirstAbove(CuckooTargets(PiecesInOrder[k], s1), s2) # -1
  THEN InitEnter(k, s1, FirstAbove(CuckooTargets(PiecesInOrder[k], s1), s2), count)
  ELSE InitAdvanceRow(FirstAbove(CuckooRows, 64 * (k - 1) + s1), count)

\* The state after the two memsets, at the first insertion.
InitBegin ==
  /\ cuckoo = [j \in 0..(CuckooSize - 1) |-> {}]
  /\ cuckooMove = [j \in 0..(CuckooSize - 1) |-> MOVE_NONE]
  /\ initFrame = InitAdvanceRow(FirstAbove(CuckooRows, -1), 0)

\* An iteration that ends the insertion even when the slot was taken: the
\* victim is dropped.
InitIterationDropsVictim(T) ==
  [cuckoo |-> [T.cuckoo EXCEPT ![T.frame.i] = T.frame.key],
   cuckooMove |-> [T.cuckooMove EXCEPT ![T.frame.i] = T.frame.move],
   frame |-> InitAdvance(T.frame.pc, T.frame.s1, T.frame.s2, T.frame.count + 1)]

\* One iteration of the while (true) loop on the tables and locals T: the
\* key and the move in hand are swapped with slot i; an empty slot ends the
\* insertion (count++ and the loops advance), otherwise the victim goes to
\* its alternative slot.
InitIteration(T) ==
  [cuckoo |-> [T.cuckoo EXCEPT ![T.frame.i] = T.frame.key],
   cuckooMove |-> [T.cuckooMove EXCEPT ![T.frame.i] = T.frame.move],
   frame |-> IF T.cuckooMove[T.frame.i] = MOVE_NONE
             THEN InitAdvance(T.frame.pc, T.frame.s1, T.frame.s2, T.frame.count + 1)
             ELSE [T.frame EXCEPT
                     !.key = T.cuckoo[T.frame.i],
                     !.move = T.cuckooMove[T.frame.i],
                     !.i = IF T.frame.i = H1(T.cuckoo[T.frame.i])
                           THEN H2(T.cuckoo[T.frame.i]) ELSE H1(T.cuckoo[T.frame.i])]]

\* The iterations made while the loops stay at Pieces[k] and s1.
RECURSIVE InitRow(_, _, _)
InitRow(T, k, s1) ==
  IF T.frame.at = "loop" /\ T.frame.pc = k /\ T.frame.s1 = s1
  THEN InitRow(InitIteration(T), k, s1)
  ELSE T

\* The iterations made while the outermost loop stays at Pieces[k].
RECURSIVE InitPiece(_, _)
InitPiece(T, k) ==
  IF T.frame.at = "loop" /\ T.frame.pc = k
  THEN InitPiece(InitRow(T, k, T.frame.s1), k)
  ELSE T

\* One step of init(): the body of the outermost loop for one piece.
InitLoop ==
  /\ initFrame.at = "loop"
  /\ \E T \in {InitPiece([cuckoo |-> cuckoo, cuckooMove |-> cuckooMove, frame |-> initFrame],
                          initFrame.pc)} :
        /\ cuckoo' = T.cuckoo
        /\ cuckooMove' = T.cuckooMove
        /\ initFrame' = T.frame
  /\ UNCHANGED <<pos, stack, snaps, expect, lastOp, lastMove, unwound, root, threshold, seeResult, cyclePly, cycle, workerVars, setVars, drawVars>>

InitInit ==
  /\ InitBegin
  /\ root = 1
  /\ pos = ZeroPosition
  /\ stack = <<>>
  /\ snaps = <<>>
  /\ expect = ZeroPosition
  /\ lastOp = "init"
  /\ lastMove = MOVE_NONE
  /\ unwound = 0
  /\ threshold = 0
  /\ seeResult = FALSE
  /\ cyclePly = 0
  /\ cycle = FALSE
  /\ input = <<>>
  /\ outcome = "none"
  /\ drawPly = 0
  /\ draw = FALSE
  /\ repeated = FALSE
  /\ workers = <<>>
  /\ heap = <<>>

\* Position::has_game_cycle(ply): whether the position has a move that draws
\* by repetition, or an earlier position has a move that directly reaches the
\* current one.  The loop leaves only by return true, so the result is the
\* disjunction over its iterations i = 3, 5, ..., end.
CuckooSlot(moveKey) ==
  IF cuckoo[H1(moveKey)] = moveKey THEN H1(moveKey)
  ELSE IF cuckoo[H2(moveKey)] = moveKey THEN H2(moveKey)
  ELSE -1

\* The test of one iteration without the look at the squares between s1 and s2.
GameCycleAtUnblocked(P, p, i, stp, move) ==
  \/ p > i
  \/ /\ color_of(piece_on(P, IF empty(P, from_sq(move)) THEN to_sq(move) ELSE from_sq(move)))
          = P.sideToMove
     /\ stp.repetition # 0

GameCycleAt(P, p, i, stp, move) ==
  /\ (between_bb(from_sq(move), to_sq(move)) \ {to_sq(move)}) \cap pieces(P) = {}
  /\ \/ p > i
     \/ /\ color_of(piece_on(P, IF empty(P, from_sq(move)) THEN to_sq(move) ELSE from_sq(move)))
             = P.sideToMove
        /\ stp.repetition # 0

has_game_cycle(P, p) ==
  \E i \in 3..Min({St(P).rule50, St(P).pliesFromNull}) :
     /\ i % 2 = 1
     /\ CuckooSlot(KeyXor(St(P).key, P.st[Len(P.st) - i].key)) # -1
     /\ GameCycleAt(P, p, i, P.st[Len(P.st) - i],
                    cuckooMove[CuckooSlot(KeyXor(St(P).key, P.st[Len(P.st) - i].key))])

\* Once init() has returned, set() builds one of the positions R.
SetRootIn(R) ==
  /\ initFrame.at = "done"
  /\ lastOp = "init"
  /\ \E r \in R :
        /\ root' = r
        /\ pos' = RootPosition(r)
        /\ expect' = RootPosition(r)
  /\ lastOp' = "set"
  /\ UNCHANGED <<stack, snaps, lastMove, unwound, threshold, seeResult, cuckooVars, workerVars, setVars, drawVars>>

SetRoot == SetRootIn(CycleRoots)

\* has_game_cycle() that stores the current key in the table it probes.
HasGameCycleCachesKey ==
  /\ lastOp \in {"do_move", "do_null_move"}
  /\ \E p \in 0..MaxPly :
        /\ cyclePly' = p
        /\ cycle' = has_game_cycle(pos, p)
  /\ cuckoo' = [cuckoo EXCEPT ![H1(St(pos).key)] = St(pos).key]
  /\ lastOp' = "has_game_cycle"
  /\ UNCHANGED <<pos, stack, snaps, expect, lastMove, unwound, root, threshold, seeResult,
                 cuckooMove, initFrame, workerVars, setVars, drawVars>>

\* The search asks has_game_cycle(ply) about the position it has reached.
HasGameCycle ==
  /\ lastOp \in {"do_move", "do_null_move"}
  /\ \E p \in 0..MaxPly :
        /\ cyclePly' = p
        /\ cycle' = has_game_cycle(pos, p)
  /\ lastOp' = "has_game_cycle"
  /\ UNCHANGED <<pos, stack, snaps, expect, lastMove, unwound, root, threshold, seeResult,
                 cuckoo, cuckooMove, initFrame, workerVars, setVars, drawVars>>

\* init() runs first; then a position is set and searched.
Searching == lastOp \notin {"init", "has_game_cycle"}

NextInit ==
  \/ InitLoop
  \/ SetRoot
  \/ Searching /\ DoMove
  \/ Searching /\ UndoMove
  \/ Searching /\ DoNullMove
  \/ Searching /\ UndoNullMove
  \/ HasGameCycle

SpecInit == InitInit /\ [][NextInit]_vars


\* init() is one call that runs to its end: as long as it is in its loops it
\* takes a step (weak fairness of InitLoop, with "in its loops" for ENABLED).
InitRuns == []<>(initFrame.at # "loop") \/ []<><<InitLoop>>_vars

\* The search of the position with the rook and the knight alone.
SetRootBlocked == SetRootIn({25})

NextInitLive ==
  \/ InitLoop
  \/ SetRootBlocked
  \/ Searching /\ DoMove
  \/ Searching /\ UndoMove
  \/ Searching /\ DoNullMove
  \/ Searching /\ UndoNullMove
  \/ HasGameCycle

SpecInitLive == InitInit /\ [][NextInitLive]_vars /\ InitRuns
(***************************************************************************)
(* Two search workers.  Each owns a Position object and the StateInfo      *)
(* records its search supplies to set(), do_move() and do_null_move(); the *)
(* records live in heap and are linked by their pointers previous.  A step *)
(* is one whole call by one worker.  workers[w].alone is the position the  *)
(* calls of worker w produce when no other worker runs.                    *)
(***************************************************************************)
Workers == {1, 2}

\* The position each worker's search starts from, as an index in Roots.
WorkerRoot == <<20, 21>>

MaxWorkerDepth == 2

\* The most do_move calls a worker makes (its node counter).
MaxNodes == 2

NullAddr == <<0, 0>>

\* A StateInfo in static storage, which no worker's search supplies.
StaticSt == <<0, 1>>

\* The StateInfo the search of worker w supplies at depth k (0: to set()).
NewSt(w, k) == <<w, k>>

Addrs == {StaticSt} \cup { NewSt(w, k) : w \in Workers, k \in 0..MaxWorkerDepth }

\* The states from address a back through previous, oldest first, at most n.
RECURSIVE ChainFrom(_, _, _)
ChainFrom(h, a, n) ==
  IF a = NullAddr \/ n = 0 THEN <<>>
  ELSE Append(ChainFrom(h, h[a].previous, n - 1), h[a].info)

\* The Position of worker w together with the chain its pointer st heads.
WorkerPosition(w) ==
  [workers[w].obj EXCEPT !.st = ChainFrom(heap, workers[w].st, MaxWorkerDepth + 1)]

\* do_move and do_null_move fill the record newSt, link it to the current
\* state and make it the current one.
LinkStateStatic(h, st, newSt, info) ==
  [heap |-> [h EXCEPT ![StaticSt] = [info |-> info, previous |-> st]], st |-> StaticSt]

LinkState(h, st, newSt, info) ==
  [heap |-> [h EXCEPT ![newSt] = [info |-> info, previous |-> st]], st |-> newSt]

\* The object of worker w after a call that left the position Q.
WorkerAfter(wk, Q, newSt, nodes, moves, alone) ==
  [obj |-> [Q EXCEPT !.st = <<>>], st |-> newSt, nodes |-> nodes, stack |-> moves, alone |-> alone]

WorkerLinked(w, Q, L, nodes, m, alone) ==
  /\ heap' = L.heap
  /\ workers' = [workers EXCEPT
                   ![w] = WorkerAfter(@, Q, L.st, nodes, Append(@.stack, m), alone)]

WorkerDoMove(w) ==
  /\ Len(workers[w].stack) < MaxWorkerDepth
  /\ workers[w].nodes < MaxNodes
  /\ \E P \in {WorkerPosition(w)} : \E m \in DriverMoves(P, WorkerRoot[w]) :
        \E Q \in {do_move(P, m, gives_check(P, m))} :
           WorkerLinked(w, Q,
                        LinkState(heap, workers[w].st, NewSt(w, Len(workers[w].stack) + 1), St(Q)),
                        workers[w].nodes + 1, m,
                        do_move(workers[w].alone, m, gives_check(workers[w].alone, m)))

WorkerDoNullMove(w) ==
  /\ Len(workers[w].stack) < MaxWorkerDepth
  /\ \E P \in {WorkerPosition(w)} :
        /\ checkers(P) = {}
        /\ \E Q \in {do_null_move(P)} :
              WorkerLinked(w, Q,
                           LinkState(heap, workers[w].st, NewSt(w, Len(workers[w].stack) + 1), St(Q)),
                           workers[w].nodes, MOVE_NULL,
                           do_null_move(workers[w].alone))

\* undo_move and undo_null_move write no record: st = st->previous.
WorkerUnlinked(w, Q, alone) ==
  /\ workers' = [workers EXCEPT
                   ![w] = WorkerAfter(@, Q, heap[@.st].previous, @.nodes,
                                      SubSeq(@.stack, 1, Len(@.stack) - 1), alone)]
  /\ UNCHANGED heap

WorkerUndoMove(w) ==
  /\ workers[w].stack # <<>>
  /\ workers[w].stack[Len(workers[w].stack)] # MOVE_NULL
  /\ \E m \in {workers[w].stack[Len(workers[w].stack)]} :
        WorkerUnlinked(w, undo_move(WorkerPosition(w), m), undo_move(workers[w].alone, m))

WorkerUndoNullMove(w) ==
  /\ workers[w].stack # <<>>
  /\ workers[w].stack[Len(workers[w].stack)] = MOVE_NULL
  /\ WorkerUnlinked(w, undo_null_move(WorkerPosition(w)), undo_null_move(workers[w].alone))

\* Each worker has called set() with its own StateInfo.
InitWorkers ==
  /\ workers = [w \in Workers |->
                  WorkerAfter(<<>>, RootPosition(WorkerRoot[w]), NewSt(w, 0), 0, <<>>,
                              RootPosition(WorkerRoot[w]))]
  /\ heap = [a \in Addrs |->
               IF \E w \in Workers : a = NewSt(w, 0)
               THEN [info |-> St(RootPosition(WorkerRoot[a[1]])), previous |-> NullAddr]
               ELSE [info |-> ZeroStateInfo, previous |-> NullAddr]]
  /\ root = WorkerRoot[1]
  /\ pos = ZeroPosition
  /\ stack = <<>>
  /\ snaps = <<>>
  /\ expect = ZeroPosition
  /\ lastOp = "set"
  /\ lastMove = MOVE_NONE
  /\ unwound = 0
  /\ threshold = 0
  /\ seeResult = FALSE
  /\ cuckoo = <<>>
  /\ cuckooMove = <<>>
  /\ initFrame = <<>>
  /\ cyclePly = 0
  /\ cycle = FALSE
  /\ input = <<>>
  /\ outcome = "none"
  /\ drawPly = 0
  /\ draw = FALSE
  /\ repeated = FALSE

WorkerStep(w) ==
  /\ \/ WorkerDoMove(w)
     \/ WorkerUndoMove(w)
     \/ WorkerDoNullMove(w)
     \/ WorkerUndoNullMove(w)
  /\ UNCHANGED <<pos, stack, snaps, expect, lastOp, lastMove, unwound, root, threshold, seeResult,
                 cuckooVars, setVars, drawVars>>

NextWorkers == \E w \in Workers : WorkerStep(w)

SpecWorkers == InitWorkers /\ [][NextWorkers]_vars

(***************************************************************************)
(* set() called with position strings that are not well formed: two well   *)
(* formed strings and every string that differs from one of them in one    *)
(* character of the placement or of the castling field.                    *)
(***************************************************************************)
\* "4k3/8/8/8/8/8/8/R3K2R w KQ - 0 1"
FenWhiteCastles ==
  <<"4", "k", "3", "/", "8", "/", "8", "/", "8", "/", "8", "/", "8", "/", "8", "/", "R", "3", "K", "2", "R", " ", "w", " ", "K", "Q", " ", "-", " ", "0", " ", "1">>

\* "r3k2r/8/8/8/8/8/8/4K3 b kq - 0 1"
FenBlackCastles ==
  <<"r", "3", "k", "2", "r", "/", "8", "/", "8", "/", "8", "/", "8", "/", "8", "/", "8", "/", "4", "K", "3", " ", "b", " ", "k", "q", " ", "-", " ", "0", " ", "1">>

\* The characters written over one character of a string.
MutChars == {"x", "9", "1", "K", "C"}

\* The indices of the placement field and of the castling field.
PlacementField(fenStr) == 1..(PlacementEnd(fenStr) - 1)

CastlingField(fenStr) ==
  { i \in (PlacementEnd(fenStr) + 3)..Len(fenStr) :
      \A t \in (PlacementEnd(fenStr) + 3)..i : ~isspace(fenStr[t]) }

FenInputs ==
  UNION { {f} \cup { [f EXCEPT ![j] = ch] : j \in PlacementField(f) \cup CastlingField(f), ch \in MutChars }
          : f \in {FenWhiteCastles, FenBlackCastles} }

\* A caller hands set() one of the strings.
SetString ==
  /\ lastOp = "init"
  /\ \E f \in FenInputs : \E o \in SetOutcomes(f, FALSE) :
        /\ input' = f
        /\ outcome' = o
        /\ pos' = IF SetOutcomes(f, FALSE) = {"returned"} THEN set(f, FALSE) ELSE pos
  /\ lastOp' = "set"
  /\ UNCHANGED <<stack, snaps, expect, lastMove, unwound, root, threshold, seeResult,
                 cuckooVars, workerVars, drawVars>>

InitSet ==
  /\ input = <<>>
  /\ outcome = "none"
  /\ drawPly = 0
  /\ draw = FALSE
  /\ repeated = FALSE
  /\ root = 1
  /\ pos = ZeroPosition
  /\ stack = <<>>
  /\ snaps = <<>>
  /\ expect = ZeroPosition
  /\ lastOp = "init"
  /\ lastMove = MOVE_NONE
  /\ unwound = 0
  /\ threshold = 0
  /\ seeResult = FALSE
  /\ cuckoo = <<>>
  /\ cuckooMove = <<>>
  /\ initFrame = <<>>
  /\ cyclePly = 0
  /\ cycle = FALSE
  /\ workers = <<>>
  /\ heap = <<>>

NextSet == SetString

SpecSet == InitSet /\ [][NextSet]_vars


(***************************************************************************)
(* The search asking is_draw(ply) and has_repeated() at the node it has    *)
(* reached by moves and null moves.                                        *)
(***************************************************************************)
\* The driver is at a node: the last call built or changed the position.
AtNode == lastOp \in {"set", "do_move", "do_null_move"}

IsDraw ==
  /\ AtNode
  /\ \E p \in 0..MaxDrawPly :
        /\ drawPly' = p
        /\ draw' = is_draw(pos, p)
  /\ lastOp' = "is_draw"
  /\ UNCHANGED <<pos, stack, snaps, expect, lastMove, unwound, root, threshold, seeResult,
                 cuckooVars, workerVars, setVars, repeated>>

HasRepeated ==
  /\ AtNode
  /\ repeated' = has_repeated(pos)
  /\ lastOp' = "has_repeated"
  /\ UNCHANGED <<pos, stack, snaps, expect, lastMove, unwound, root, threshold, seeResult,
                 cuckooVars, workerVars, setVars, drawPly, draw>>

InitDraw == InitAt(DrawRoots)

NextDraw ==
  \/ AtNode /\ DoMove
  \/ AtNode /\ DoNullMove
  \/ IsDraw
  \/ HasRepeated

SpecDraw == InitDraw /\ [][NextDraw]_vars

(***************************************************************************)
(* A game played on: the kings go to and fro, whatever is_draw says, with  *)
(* at most one null move in a line.  Nothing is taken back, so the driver  *)
(* records the moves but no positions.                                     *)
(***************************************************************************)
NoNullMoveYet == \A k \in 1..Len(stack) : stack[k] # MOVE_NULL

PlayMove ==
  /\ Len(stack) < Roots[root].depth
  /\ \E m \in DriverMoves(pos, root) :
        /\ pos' = do_move(pos, m, gives_check(pos, m))
        /\ stack' = Append(stack, m)
        /\ lastMove' = m
  /\ lastOp' = "do_move"
  /\ UNCHANGED <<snaps, expect, unwound, root, threshold, seeResult, cuckooVars, workerVars,
                 setVars, drawVars>>

PlayNullMove ==
  /\ Len(stack) < Roots[root].depth
  /\ NoNullMoveYet
  /\ checkers(pos) = {}
  /\ pos' = do_null_move(pos)
  /\ stack' = Append(stack, MOVE_NULL)
  /\ lastMove' = MOVE_NULL
  /\ lastOp' = "do_null_move"
  /\ UNCHANGED <<snaps, expect, unwound, root, threshold, seeResult, cuckooVars, workerVars,
                 setVars, drawVars>>

InitLong == InitAt(LongRoots)

NextLong == PlayMove \/ PlayNullMove

SpecLong == InitLong /\ [][NextLong]_vars
(***************************************************************************)
(* Chess960 castling on its own: set() is given a position whose side to   *)
(* move has its king anywhere on files b..g of its back rank with one rook *)
(* on either side, both castling rights, and do_castling<true> followed by *)
(* do_castling<false> is called for each castling whose path is free.      *)
(***************************************************************************)
\* One rank of a placement field; row[f] is the piece letter on file f - 1,
\* or "" for an empty square, and run counts the empty squares not yet
\* written.
RECURSIVE RankFen(_, _, _)
RankFen(row, f, run) ==
  IF f > 8 THEN (IF run > 0 THEN <<DigitChars[run + 1]>> ELSE <<>>)
  ELSE IF row[f] = "" THEN RankFen(row, f + 1, run + 1)
  ELSE (IF run > 0 THEN <<DigitChars[run + 1]>> ELSE <<>>) \o <<row[f]>> \o RankFen(row, f + 1, 0)

\* The back rank with the king on file k and the rooks on files r1 and r2.
BackRank(king, rook, k, r1, r2) ==
  [f \in 1..8 |-> IF f = k + 1 THEN king ELSE IF f \in {r1 + 1, r2 + 1} THEN rook ELSE ""]

\* The position string for colour c; the other side has its king on the e
\* file behind a pawn.
FenChess960(c, k, r1, r2) ==
  IF c = WHITE
  THEN <<"4", "k", "3", "/", "4", "p", "3", "/", "8", "/", "8", "/", "8", "/", "8", "/", "8", "/">>
       \o RankFen(BackRank("K", "R", k, r1, r2), 1, 0)
       \o <<" ", "w", " ", UpperChars[r2 + 1], UpperChars[r1 + 1], " ", "-", " ", "0", " ", "1">>
  ELSE RankFen(BackRank("k", "r", k, r1, r2), 1, 0)
       \o <<"/", "8", "/", "8", "/", "8", "/", "8", "/", "8", "/", "4", "P", "3", "/", "4", "K", "3">>
       \o <<" ", "b", " ", LowerChars[r2 + 1], LowerChars[r1 + 1], " ", "-", " ", "0", " ", "1">>

\* The arrangements: the king's file and the files of the rooks around it.
Arrangements ==
  { a \in (1..6) \X (0..5) \X (2..7) : a[2] < a[1] /\ a[1] < a[3] }

InitCastle ==
  \E c \in Colors : \E a \in Arrangements :
     /\ input = FenChess960(c, a[1], a[2], a[3])
     /\ pos = set(FenChess960(c, a[1], a[2], a[3]), TRUE)
     /\ expect = set(FenChess960(c, a[1], a[2], a[3]), TRUE)
     /\ outcome = "returned"
     /\ root = 0
     /\ stack = <<>>
     /\ snaps = <<>>
     /\ lastOp = "set"
     /\ lastMove = MOVE_NONE
     /\ unwound = 0
     /\ threshold = 0
     /\ seeResult = FALSE
     /\ cuckoo = <<>>
     /\ cuckooMove = <<>>
     /\ initFrame = <<>>
     /\ cyclePly = 0
     /\ cycle = FALSE
     /\ workers = <<>>
     /\ heap = <<>>
     /\ drawPly = 0
     /\ draw = FALSE
     /\ repeated = FALSE

\* do_castling<true> as do_move calls it: from the king's square to the
\* square of the castling rook.
DoCastling ==
  /\ lastOp = "set"
  /\ \E cr \in St(pos).castlingRights :
        /\ ~castling_impeded(pos, cr)
        /\ \E m \in {make(CASTLING, square_king(pos, pos.sideToMove), pos.castlingRookSquare[cr], KNIGHT)} :
              /\ pos' = do_castling(TRUE, pos, pos.sideToMove, from_sq(m), to_sq(m)).P
              /\ lastMove' = m
              /\ stack' = Append(stack, m)
  /\ snaps' = Append(snaps, pos)
  /\ lastOp' = "do_castling"
  /\ UNCHANGED <<expect, unwound, root, threshold, seeResult, cuckooVars, workerVars, setVars, drawVars>>

\* do_castling<false> as undo_move calls it, with the same two squares.
UndoCastling ==
  /\ lastOp = "do_castling"
  /\ pos' = do_castling(FALSE, pos, pos.sideToMove, from_sq(lastMove), to_sq(lastMove)).P
  /\ stack' = <<>>
  /\ lastOp' = "undo_castling"
  /\ unwound' = 1
  /\ UNCHANGED <<snaps, expect, lastMove, root, threshold, seeResult, cuckooVars, workerVars,
                 setVars, drawVars>>

NextCastle == DoCastling \/ UndoCastling

SpecCastle == InitCastle /\ [][NextCastle]_vars

(***************************************************************************)
(* Castling under attack: the same back ranks, with a rook of the other    *)
(* side on the fifth rank or on the back rank itself, with and without the *)
(* Chess960 flag.  legal() decides each castling the generator offers, and *)
(* the legal ones are made and taken back.                                 *)
(***************************************************************************)
\* The placement field for the piece letters on the squares in the domain of
\* b, from rank r down to the first rank.
RECURSIVE PlacementFen(_, _)
PlacementFen(b, r) ==
  RankFen([f \in 1..8 |-> IF make_square(f - 1, r) \in DOMAIN b THEN b[make_square(f - 1, r)] ELSE ""], 1, 0)
  \o (IF r = 0 THEN <<>> ELSE <<"/">> \o PlacementFen(b, r - 1))

\* The pieces of FenChess960 with a rook of the other side on square e
\* (none when e = SQ_NONE).
GuardedBoard(c, k, r1, r2, e) ==
  [s \in ({relative_square(c, k), relative_square(c, r1), relative_square(c, r2),
           relative_square(c, 60), relative_square(c, 52)} \cup ({e} \cap Squares)) |->
     IF s = relative_square(c, k) THEN (IF c = WHITE THEN "K" ELSE "k")
     ELSE IF s \in {relative_square(c, r1), relative_square(c, r2)} THEN (IF c = WHITE THEN "R" ELSE "r")
     ELSE IF s = relative_square(c, 60) THEN (IF c = WHITE THEN "k" ELSE "K")
     ELSE IF s = relative_square(c, 52) THEN (IF c = WHITE THEN "p" ELSE "P")
     ELSE (IF c = WHITE THEN "r" ELSE "R")]

FenGuarded(c, k, r1, r2, e) ==
  PlacementFen(GuardedBoard(c, k, r1, r2, e), 7)
  \o (IF c = WHITE
      THEN <<" ", "w", " ", UpperChars[r2 + 1], UpperChars[r1 + 1], " ", "-", " ", "0", " ", "1">>
      ELSE <<" ", "b", " ", LowerChars[r2 + 1], LowerChars[r1 + 1], " ", "-", " ", "0", " ", "1">>)

\* Where the rook of the other side may stand: nowhere, on the fifth rank, or
\* on a free square of the back rank.
GuardSquares(c, a) ==
  {SQ_NONE} \cup { relative_square(c, s) : s \in (32..39) \cup ((0..7) \ {a[1], a[2], a[3]}) }

InitGuarded ==
  \E c \in Colors : \E a \in Arrangements : \E e \in GuardSquares(c, a) : \E is960 \in BOOLEAN :
     /\ input = FenGuarded(c, a[1], a[2], a[3], e)
     /\ pos = set(FenGuarded(c, a[1], a[2], a[3], e), is960)
     /\ expect = set(FenGuarded(c, a[1], a[2], a[3], e), is960)
     /\ outcome = "returned"
     /\ root = 0
     /\ stack = <<>>
     /\ snaps = <<>>
     /\ lastOp = "set"
     /\ lastMove = MOVE_NONE
     /\ unwound = 0
     /\ threshold = 0
     /\ seeResult = FALSE
     /\ cuckoo = <<>>
     /\ cuckooMove = <<>>
     /\ initFrame = <<>>
     /\ cyclePly = 0
     /\ cycle = FALSE
     /\ workers = <<>>
     /\ heap = <<>>
     /\ drawPly = 0
     /\ draw = FALSE
     /\ repeated = FALSE

\* The castling moves the generator offers in P.
CastlingMoves(P) == { m \in PseudoLegalMoves(P) : m.type = CASTLING }

\* A castling that legal() lets through is made.
Castle ==
  /\ lastOp = "set"
  /\ \E m \in CastlingMoves(pos) :
        /\ legal(pos, m)
        /\ pos' = do_move(pos, m, gives_check(pos, m))
        /\ lastMove' = m
        /\ stack' = Append(stack, m)
  /\ snaps' = Append(snaps, pos)
  /\ lastOp' = "do_move"
  /\ unwound' = 0
  /\ UNCHANGED <<expect, root, threshold, seeResult, cuckooVars, workerVars, setVars, drawVars>>

\* and taken back.
Uncastle ==
  /\ lastOp = "do_move"
  /\ pos' = undo_move(pos, lastMove)
  /\ stack' = <<>>
  /\ snaps' = <<>>
  /\ lastOp' = "undo_move"
  /\ unwound' = 1
  /\ UNCHANGED <<expect, lastMove, root, threshold, seeResult, cuckooVars, workerVars, setVars,
                 drawVars>>

NextGuarded == Castle \/ Uncastle

SpecGuarded == InitGuarded /\ [][NextGuarded]_vars

(***************************************************************************)
(* Castling with check: a king with one or two castling rooks on its back  *)
(* rank, the king of the other side alone on a square of its own back rank *)
(* or of the castling rank, and the                                        *)
(* positions of the general exploration.  One legal move is made, with the *)
(* flag gives_check() computes, and taken back.                            *)
(***************************************************************************)
\* The king of colour c on file k of its back rank, its rooks on the files
\* of R, the other king on square ek.
KingsBoard(c, k, R, ek) ==
  [s \in {relative_square(c, k), ek} \cup { relative_square(c, r) : r \in R } |->
     IF s = ek THEN (IF c = WHITE THEN "k" ELSE "K")
     ELSE IF s = relative_square(c, k) THEN (IF c = WHITE THEN "K" ELSE "k")
     ELSE (IF c = WHITE THEN "R" ELSE "r")]

\* The castling field naming the files of R.
RightsField(c, R) ==
  IF Cardinality(R) = 1
  THEN <<(IF c = WHITE THEN UpperChars ELSE LowerChars)[Max(R) + 1]>>
  ELSE <<(IF c = WHITE THEN UpperChars ELSE LowerChars)[Max(R) + 1],
         (IF c = WHITE THEN UpperChars ELSE LowerChars)[Min(R) + 1]>>

FenKings(c, k, R, ek) ==
  PlacementFen(KingsBoard(c, k, R, ek), 7)
  \o <<" ", IF c = WHITE THEN "w" ELSE "b", " ">> \o RightsField(c, R)
  \o <<" ", "-", " ", "0", " ", "1">>

\* The rooks a king on file k castles with: one, or one on either side.
RookSets(k) ==
  { {r} : r \in (0..7) \ {k} } \cup { {r1, r2} : r1 \in 0..(k - 1), r2 \in (k + 1)..7 }

\* Where the other king may stand.
KingSquares(c, k, R) ==
  { relative_square(c, s) : s \in (56..63) \cup ((0..7) \ ({k} \cup R)) }

\* Neither king of P is attacked.
NoCheck(P) ==
  \A c \in Colors : attackers_to(P, square_king(P, c)) \cap pieces_c(P, Opp(c)) = {}

InitKings ==
  \E c \in Colors : \E k \in 1..6 : \E R \in RookSets(k) : \E ek \in KingSquares(c, k, R) :
     /\ \E P \in {set(FenKings(c, k, R, ek), TRUE)} :
           /\ NoCheck(P)
           /\ pos = P
           /\ expect = P
     /\ input = FenKings(c, k, R, ek)
     /\ outcome = "returned"
     /\ root = 0
     /\ stack = <<>>
     /\ snaps = <<>>
     /\ lastOp = "set"
     /\ lastMove = MOVE_NONE
     /\ unwound = 0
     /\ threshold = 0
     /\ seeResult = FALSE
     /\ cuckoo = <<>>
     /\ cuckooMove = <<>>
     /\ initFrame = <<>>
     /\ cyclePly = 0
     /\ cycle = FALSE
     /\ workers = <<>>
     /\ heap = <<>>
     /\ drawPly = 0
     /\ draw = FALSE
     /\ repeated = FALSE

InitCheck == InitKings \/ InitAt(MainRoots)

\* A legal move is made with the flag gives_check() computes for it.
MoveWithCheck ==
  /\ lastOp = "set"
  /\ \E m \in LegalMoves(pos) :
        /\ root = 0 => m.type = CASTLING
        /\ pos' = do_move(pos, m, gives_check(pos, m))
        /\ lastMove' = m
        /\ stack' = Append(stack, m)
  /\ snaps' = Append(snaps, pos)
  /\ lastOp' = "do_move"
  /\ unwound' = 0
  /\ UNCHANGED <<expect, root, threshold, seeResult, cuckooVars, workerVars, setVars, drawVars>>

\* and taken back.
MoveBack ==
  /\ lastOp = "do_move"
  /\ pos' = undo_move(pos, lastMove)
  /\ stack' = <<>>
  /\ snaps' = <<>>
  /\ lastOp' = "undo_move"
  /\ unwound' = 1
  /\ UNCHANGED <<expect, lastMove, root, threshold, seeResult, cuckooVars, workerVars, setVars,
                 drawVars>>

NextCheck == MoveWithCheck \/ MoveBack

SpecCheck == InitCheck /\ [][NextCheck]_vars


(***************************************************************************)
(* Pins and discovered attacks: a king on d4 (d5 for Black) with up to     *)
(* three pieces on the d-file and the long diagonal beyond it; moves among *)
(* these squares are made and taken back.                                  *)
(***************************************************************************)
\* d5, d6, d7, e5, f6
LineSquares == {35, 43, 51, 36, 45}

MaxOnLines == 3

MaxPinDepth == 2

\* Rook, bishop and queen of the other side, a knight of the king's side.
LineKinds == {"r", "b", "q", "N"}

OtherCase(ch) ==
  CASE ch = "r" -> "R" [] ch = "b" -> "B" [] ch = "q" -> "Q" [] ch = "N" -> "n"
    [] ch = "K" -> "k" [] ch = "k" -> "K"

\* The king of colour c on relative d4, the other king on relative a8, and
\* the pieces of f on the relative squares of its domain.
LinesBoard(c, f) ==
  [s \in { relative_square(c, q) : q \in DOMAIN f \cup {27, 56} } |->
     LET q == relative_square(c, s)
         ch == IF q = 27 THEN "K" ELSE IF q = 56 THEN "k" ELSE f[q]
     IN  IF c = WHITE THEN ch ELSE OtherCase(ch)]

FenLines(c, f) ==
  PlacementFen(LinesBoard(c, f), 7)
  \o <<" ", IF c = WHITE THEN "w" ELSE "b", " ", "-", " ", "-", " ", "0", " ", "1">>

InitPins ==
  \E c \in Colors : \E S \in { T \in SUBSET LineSquares : Cardinality(T) <= MaxOnLines } :
    \E f \in [S -> LineKinds] :
     /\ \E P \in {set(FenLines(c, f), FALSE)} :
           /\ pos = P
           /\ expect = P
     /\ input = FenLines(c, f)
     /\ outcome = "returned"
     /\ root = 0
     /\ stack = <<>>
     /\ snaps = <<>>
     /\ lastOp = "set"
     /\ lastMove = MOVE_NONE
     /\ unwound = 0
     /\ threshold = 0
     /\ seeResult = FALSE
     /\ cuckoo = <<>>
     /\ cuckooMove = <<>>
     /\ initFrame = <<>>
     /\ cyclePly = 0
     /\ cycle = FALSE
     /\ workers = <<>>
     /\ heap = <<>>
     /\ drawPly = 0
     /\ draw = FALSE
     /\ repeated = FALSE

\* The squares the moves stay on.
PinArea == { relative_square(c, q) : c \in Colors, q \in LineSquares \cup {27} }

\* A legal move among the squares of the lines.
MoveOnLines ==
  /\ Len(stack) < MaxPinDepth
  /\ \E m \in LegalMoves(pos) :
        /\ from_sq(m) \in PinArea
        /\ to_sq(m) \in PinArea
        /\ pos' = do_move(pos, m, gives_check(pos, m))
        /\ stack' = Append(stack, m)
        /\ lastMove' = m
  /\ snaps' = Append(snaps, pos)
  /\ lastOp' = "do_move"
  /\ unwound' = 0
  /\ UNCHANGED <<expect, root, threshold, seeResult, cuckooVars, workerVars, setVars, drawVars>>

NextPins == MoveOnLines \/ UndoMove

SpecPins == InitPins /\ [][NextPins]_vars

(***************************************************************************)
(* pseudo_legal() asked about move values that come from anywhere: every   *)
(* pair of squares as a NORMAL move, with promotion bits clear or set, in  *)
(* positions with and without check.                                       *)
(***************************************************************************)
\* Black to move after e2e4: "rnbqkbnr/pppppppp/8/8/4P3/8/PPPP1PPP/RNBQKBNR b KQkq - 0 1"
FenAfterE4 ==
  <<"r", "n", "b", "q", "k", "b", "n", "r", "/", "p", "p", "p", "p", "p", "p", "p", "p", "/", "8", "/", "8", "/", "4", "P", "3", "/", "8", "/", "P", "P", "P", "P", "1", "P", "P", "P", "/", "R", "N", "B", "Q", "K", "B", "N", "R", " ", "b", " ", "K", "Q", "k", "q", " ", "-", " ", "0", " ", "1">>

\* a check along the fourth rank that pawns can block or end by capture: "4k3/6P1/8/8/r6K/1P1P4/2P1N3/8 w - - 0 1"
FenRankCheck ==
  <<"4", "k", "3", "/", "6", "P", "1", "/", "8", "/", "8", "/", "r", "6", "K", "/", "1", "P", "1", "P", "4", "/", "2", "P", "1", "N", "3", "/", "8", " ", "w", " ", "-", " ", "-", " ", "0", " ", "1">>

\* the same for Black on the fifth rank: "8/2p1n3/1p1p4/R6k/8/8/6p1/4K3 b - - 0 1"
FenRankCheckBlack ==
  <<"8", "/", "2", "p", "1", "n", "3", "/", "1", "p", "1", "p", "4", "/", "R", "6", "k", "/", "8", "/", "8", "/", "6", "p", "1", "/", "4", "K", "3", " ", "b", " ", "-", " ", "-", " ", "0", " ", "1">>

\* check by rook and knight at once: "4r2k/8/8/8/8/5n2/8/3QK3 w - - 0 1"
FenDoubleCheck ==
  <<"4", "r", "2", "k", "/", "8", "/", "8", "/", "8", "/", "8", "/", "5", "n", "2", "/", "8", "/", "3", "Q", "K", "3", " ", "w", " ", "-", " ", "-", " ", "0", " ", "1">>

\* a king that may not step back along the line of the checking rook: "4r2k/8/8/8/8/8/4K3/8 w - - 0 1"
FenFileCheck ==
  <<"4", "r", "2", "k", "/", "8", "/", "8", "/", "8", "/", "8", "/", "8", "/", "4", "K", "3", "/", "8", " ", "w", " ", "-", " ", "-", " ", "0", " ", "1">>

ProbeFens == {FenStart, FenAfterE4, FenPawns, FenRankCheck, FenRankCheckBlack, FenDoubleCheck, FenFileCheck}

InitProbe ==
  \E f \in ProbeFens :
     /\ \E P \in {set(f, FALSE)} :
           /\ pos = P
           /\ expect = P
     /\ input = f
     /\ outcome = "returned"
     /\ root = 0
     /\ stack = <<>>
     /\ snaps = <<>>
     /\ lastOp = "set"
     /\ lastMove = MOVE_NONE
     /\ unwound = 0
     /\ threshold = 0
     /\ seeResult = FALSE
     /\ cuckoo = <<>>
     /\ cuckooMove = <<>>
     /\ initFrame = <<>>
     /\ cyclePly = 0
     /\ cycle = FALSE
     /\ workers = <<>>
     /\ heap = <<>>
     /\ drawPly = 0
     /\ draw = FALSE
     /\ repeated = FALSE

\* The answer of pseudo_legal() to a move value is recorded in seeResult.
PseudoLegal ==
  /\ lastOp = "set"
  /\ \E from \in Squares : \E to \in Squares : \E pt \in {KNIGHT, QUEEN} :
        /\ lastMove' = make(NORMAL, from, to, pt)
        /\ seeResult' = pseudo_legal(pos, make(NORMAL, from, to, pt))
  /\ lastOp' = "pseudo_legal"
  /\ UNCHANGED <<pos, stack, snaps, expect, unwound, root, threshold, cuckooVars, workerVars,
                 setVars, drawVars>>

NextProbe == PseudoLegal

SpecProbe == InitProbe /\ [][NextProbe]_vars

(***************************************************************************)
(* see_ge() asked about every move of a position, captures or not, NORMAL  *)
(* or not, with thresholds around the differences of two piece values.     *)
(***************************************************************************)
SeeAnyThresholds ==
  LET V == {0} \cup { PieceValueMg[pt] : pt \in PieceTypes }
      D == { x[1] - x[2] : x \in V \X V }
  IN  D \cup { d + 1 : d \in D }

\* The exchanges of SeeRoots, and positions with castling, promotion and
\* en passant moves.
SeeAnyRoots == SeeRoots \cup {2, 5, 8, 34}

SeeGeAny ==
  /\ lastOp = "set"
  /\ \E m \in PseudoLegalMoves(pos) : \E t \in SeeAnyThresholds :
        /\ lastMove' = m
        /\ threshold' = t
        /\ seeResult' = see_ge(pos, m, t)
  /\ lastOp' = "see_ge"
  /\ UNCHANGED <<pos, stack, snaps, expect, unwound, root, cuckooVars, workerVars, setVars, drawVars>>

InitSeeAny == InitAt(SeeAnyRoots)

NextSeeAny == SeeGeAny

SpecSeeAny == InitSeeAny /\ [][NextSeeAny]_vars

(***************************************************************************)
(* set() given en passant fields: a king on h1 and one on h8 (seen from    *)
(* the side to move), a piece beside the named square or none, a piece in  *)
(* front of it, on it and behind it or none, and fields that name the      *)
(* square, other squares, or none.                                         *)
(***************************************************************************)
\* What can stand on e5 and c5, d5, d6 and d7, seen from White to move.
EpBeside == {<<>>, <<36, "P">>, <<34, "P">>, <<36, "N">>, <<36, "p">>}

EpFront == {<<>>, <<35, "p">>, <<35, "P">>, <<35, "n">>}

EpOn == {<<>>, <<43, "n">>}

EpBehind == {<<>>, <<51, "n">>}

\* The en passant fields, as file and relative rank.
EpFields == {<<>>, <<3, 6>>, <<3, 3>>, <<3, 5>>, <<2, 6>>, <<4, 6>>, <<7, 6>>}

OtherColour(ch) ==
  CASE ch = "P" -> "p" [] ch = "p" -> "P" [] ch = "N" -> "n" [] ch = "n" -> "N"
    [] ch = "K" -> "k" [] ch = "k" -> "K"

\* The board of colour c to move with the pieces of L.
EpBoard(c, L) ==
  LET on == { x \in L \cup {<<7, "K">>, <<63, "k">>} : x # <<>> }
  IN  [s \in { relative_square(c, x[1]) : x \in on } |->
         LET x == CHOOSE y \in on : relative_square(c, y[1]) = s
         IN  IF c = WHITE THEN x[2] ELSE OtherColour(x[2])]

FenEpField(c, e) ==
  IF e = <<>> THEN <<"-">>
  ELSE <<LowerChars[e[1] + 1], DigitChars[(IF c = WHITE THEN e[2] ELSE 9 - e[2]) + 1]>>

FenEp(c, L, e) ==
  PlacementFen(EpBoard(c, L), 7)
  \o <<" ", IF c = WHITE THEN "w" ELSE "b", " ", "-", " ">> \o FenEpField(c, e)
  \o <<" ", "0", " ", "1">>

EpInputs ==
  { FenEp(c, {b, f, o, h}, e) :
      c \in Colors, b \in EpBeside, f \in EpFront, o \in EpOn, h \in EpBehind, e \in EpFields }

\* A caller hands set() one of the strings.
SetEp ==
  /\ lastOp = "init"
  /\ \E f \in EpInputs :
        /\ input' = f
        /\ pos' = set(f, FALSE)
  /\ outcome' = "returned"
  /\ lastOp' = "set"
  /\ UNCHANGED <<stack, snaps, expect, lastMove, unwound, root, threshold, seeResult,
                 cuckooVars, workerVars, drawVars>>

NextEp == SetEp

SpecEp == InitSet /\ [][NextEp]_vars
(***************************************************************************)
(* Properties of make / unmake.                                            *)
(***************************************************************************)
\* C1: do_move(m, newSt, gives_check(m)) followed immediately by undo_move(m)
\* restores exactly the position recorded before the do_move: board array,
\* piece bitboards, piece counts, side to move, gamePly and the state chain
\* with its current record (hash key, castling rights), whatever the type of
\* the move.
C1_DoUndoRestores == (lastOp = "undo_move" /\ unwound = 1) => pos = expect

\* An en passant capture made at the deepest level and taken back at once.
C1_Witness ==
  /\ lastOp = "undo_move"
  /\ unwound = 1
  /\ lastMove.type = EN_PASSANT
  /\ St(expect).epSquare = to_sq(lastMove)
  /\ pos = expect

\* C2: after set() and after every do_move or do_null_move the stored key of
\* the current state is the key set_state computes from scratch: XOR of
\* psq[piece][square] over the occupied squares, the side key iff Black is to
\* move, enpassant[file] iff an en passant square is set, castling[rights].
C2_KeyFromScratch ==
  lastOp \in {"set", "do_move", "do_null_move"} => St(pos).key = StateKey(pos)

\* A double pawn push that has just recorded an en passant square.
C2_Witness ==
  /\ lastOp = "do_move"
  /\ St(pos).epSquare # SQ_NONE
  /\ St(pos).epSquare = to_sq(lastMove) - pawn_push(Opp(pos.sideToMove))
  /\ St(pos).key = StateKey(pos)

\* C3: every undo_move / undo_null_move made in LIFO order restores the
\* position recorded before its do_move / do_null_move, at every depth of
\* nesting, and when the last call has been undone the position is the one
\* set() built: same state record, key, board, side to move and gamePly.
C3_LifoUnwinds ==
  lastOp \in {"undo_move", "undo_null_move"} =>
     /\ pos = expect
     /\ stack = <<>> => pos = RootPosition(root)

\* Two nested calls, the outer one a null move, both undone.
C3_Witness ==
  /\ stack = <<>>
  /\ lastOp = "undo_null_move"
  /\ unwound >= 2
  /\ pos = RootPosition(root)

\* C4: the cached checkers bitboard is exactly the set of opposing pieces
\* that attack the king of the side to move (so it is empty iff there is no
\* such attacker), in every position reached by do_move with
\* givesCheck = gives_check(m), do_null_move and their undos.
C4_CheckersAreAttackers ==
  checkers(pos) =
    attackers_to(pos, square_king(pos, pos.sideToMove)) \cap pieces_c(pos, Opp(pos.sideToMove))

\* A move that has just given a double check.
C4_Witness ==
  /\ lastOp = "do_move"
  /\ Cardinality(checkers(pos)) = 2
  /\ to_sq(lastMove) \in checkers(pos)

\* C5: the square array and the bitboards agree, the piece-type bitboards are
\* pairwise disjoint, the colour bitboards are disjoint and their union is
\* the occupancy, the piece counts are the bitboard populations, and each
\* colour has exactly one king.
C5_BoardConsistent ==
  /\ \A s \in Squares :
        IF piece_on(pos, s) = NO_PIECE
        THEN s \notin pieces(pos)
        ELSE /\ piece_on(pos, s) \in Pieces
             /\ s \in pieces_cp(pos, color_of(piece_on(pos, s)), type_of(piece_on(pos, s)))
  /\ \A pt1 \in PieceTypes : \A pt2 \in PieceTypes \ {pt1} :
        pieces_pt(pos, pt1) \cap pieces_pt(pos, pt2) = {}
  /\ UNION { pieces_pt(pos, pt) : pt \in PieceTypes } = pieces(pos)
  /\ pieces_c(pos, WHITE) \cap pieces_c(pos, BLACK) = {}
  /\ pieces_c(pos, WHITE) \cup pieces_c(pos, BLACK) = pieces(pos)
  /\ \A pc \in Pieces :
        pos.pieceCount[pc] = Cardinality(pieces_cp(pos, color_of(pc), type_of(pc)))
  /\ \A c \in Colors :
        /\ pos.pieceCount[make_piece(c, ALL_PIECES)] = Cardinality(pieces_c(pos, c))
        /\ Cardinality(pieces_cp(pos, c, KING)) = 1

\* A Chess960 castling in which king and rook change places (f1 and g1).
C5_Witness ==
  /\ lastOp = "do_move"
  /\ lastMove.type = CASTLING
  /\ pos.chess960
  /\ from_sq(lastMove) = SQ_F1
  /\ to_sq(lastMove) = SQ_G1
  /\ piece_on(pos, SQ_G1) = make_piece(WHITE, KING)
  /\ piece_on(pos, SQ_F1) = make_piece(WHITE, ROOK)

(***************************************************************************)
(* Repetition, legality of pinned pieces, FEN.                             *)
(***************************************************************************)
\* The distances, within the window min(rule50, pliesFromNull) of the
\* current state, of the earlier states of the chain with the current key.
EarlierOccurrences ==
  LET n == Len(pos.st)
  IN  { i \in 1..Min({St(pos).rule50, St(pos).pliesFromNull}) :
          pos.st[n - i].key = St(pos).key }

\* C6: when the position just reached by do_move has occurred (same key) at
\* least twice before within the window min(rule50, pliesFromNull), the new
\* state has a negative repetition distance and is_draw(ply) is true for
\* every ply >= 0.
C6_ThirdOccurrenceIsDraw ==
  (lastOp = "do_move" /\ Cardinality(EarlierOccurrences) >= 2) =>
     /\ St(pos).repetition < 0
     /\ \A ply \in 0..MaxPly : is_draw(pos, ply)

\* A third occurrence reached below the fifty-move limit, so that it is the
\* repetition that makes is_draw true.
C6_Witness ==
  /\ lastOp = "do_move"
  /\ Cardinality(EarlierOccurrences) >= 2
  /\ St(pos).rule50 <= 99
  /\ St(pos).repetition < 0
  /\ is_draw(pos, 0)

\* The NORMAL pseudo-legal moves of the non-king pieces of the side to move.
NormalNonKingMoves ==
  { m \in PseudoLegalMoves(pos) :
      m.type = NORMAL /\ type_of(piece_on(pos, from_sq(m))) # KING }

\* C8: for a NORMAL move of a non-king piece of the side to move: if the
\* piece is a blocker for its own king, legal(m) is false when origin,
\* destination and king square are not aligned and true when the move stays
\* on the line through the king; if the piece is not a blocker, legal(m) is
\* true.
C8_PinnedOnlyAlongRay ==
  \A m \in NormalNonKingMoves :
     IF from_sq(m) \in blockers_for_king(pos, pos.sideToMove)
     THEN legal(pos, m) <=> aligned(from_sq(m), to_sq(m), square_king(pos, pos.sideToMove))
     ELSE legal(pos, m)

\* A pinned piece with a move along the pin ray that legal() accepts and a
\* move off the ray that legal() rejects.
C8_Witness ==
  /\ lastOp = "do_move"
  /\ \E m1 \in NormalNonKingMoves : \E m2 \in NormalNonKingMoves :
        /\ from_sq(m1) = from_sq(m2)
        /\ from_sq(m1) \in blockers_for_king(pos, pos.sideToMove)
        /\ aligned(from_sq(m1), to_sq(m1), square_king(pos, pos.sideToMove))
        /\ legal(pos, m1)
        /\ ~aligned(from_sq(m2), to_sq(m2), square_king(pos, pos.sideToMove))
        /\ ~legal(pos, m2)

\* No null move is part of the line that led to the current position.
OnlyMovesMade == \A i \in 1..Len(stack) : stack[i] # MOVE_NULL

\* R has the key, board, occupancy, castling rights, en passant square, side
\* to move, rule50 and gamePly of the current position.
AgreesWithPos(R) ==
  /\ St(R).key = St(pos).key
  /\ R.board = pos.board
  /\ R.byTypeBB = pos.byTypeBB
  /\ R.byColorBB = pos.byColorBB
  /\ St(R).castlingRights = St(pos).castlingRights
  /\ St(R).epSquare = St(pos).epSquare
  /\ R.sideToMove = pos.sideToMove
  /\ St(R).rule50 = St(pos).rule50
  /\ R.gamePly = pos.gamePly

\* C9: for a position reached by set() and do_move calls, set(fen(), is_chess960())
\* builds a position with the same key, the same board and occupancy, the
\* same castling rights, en passant square, side to move, rule50 and gamePly.
C9_FenRoundTrip ==
  OnlyMovesMade =>
     \A f \in {fen(pos)} : \A R \in {set(f, pos.chess960)} : AgreesWithPos(R)

\* A Chess960 position that keeps castling rights after a move, written in
\* Shredder notation and read back with the same castling rooks.
C9_Witness ==
  /\ lastOp = "do_move"
  /\ OnlyMovesMade
  /\ pos.chess960
  /\ St(pos).castlingRights # {}
  /\ St(pos).rule50 > 0
  /\ \A f \in {fen(pos)} : \A R \in {set(f, pos.chess960)} :
        AgreesWithPos(R) /\ R.castlingRookSquare = pos.castlingRookSquare

e2e4 == make_move(make_square(4, 1), make_square(4, 3))

e7e5 == make_move(make_square(4, 6), make_square(4, 4))

g1f3 == make_move(make_square(6, 0), make_square(5, 2))

\* "rnbqkbnr/pppp1ppp/8/4p3/4P3/5N2/PPPP1PPP/RNBQKB1R b KQkq - 1 2"
FenAfterNf3 ==
  <<"r", "n", "b", "q", "k", "b", "n", "r", "/", "p", "p", "p", "p", "1",
    "p", "p", "p", "/", "8", "/", "4", "p", "3", "/", "4", "P", "3", "/",
    "5", "N", "2", "/", "P", "P", "P", "P", "1", "P", "P", "P", "/", "R",
    "N", "B", "Q", "K", "B", "1", "R", " ", "b", " ", "K", "Q", "k", "q",
    " ", "-", " ", "1", " ", "2">>

\* C10: from the start position, after e2e4 no en passant square is recorded,
\* after e2e4 e7e5 none either, and after e2e4 e7e5 g1f3 fen() is
\* "rnbqkbnr/pppp1ppp/8/4p3/4P3/5N2/PPPP1PPP/RNBQKB1R b KQkq - 1 2" and the
\* key differs from the key of the start position.
C10_OpeningFen ==
  Roots[root].fen = FenStart =>
     /\ stack = <<e2e4>> => St(pos).epSquare = SQ_NONE
     /\ stack = <<e2e4, e7e5>> => St(pos).epSquare = SQ_NONE
     /\ stack = <<e2e4, e7e5, g1f3>> =>
           /\ fen(pos) = FenAfterNf3
           /\ St(pos).rule50 = 1
           /\ \A R \in {RootPosition(root)} : St(pos).key # St(R).key

\* The three moves have been made.
C10_Witness ==
  /\ Roots[root].fen = FenStart
  /\ stack = <<e2e4, e7e5, g1f3>>
  /\ lastOp = "do_move"
  /\ fen(pos) = FenAfterNf3

(***************************************************************************)
(* Static exchange evaluation.                                             *)
(***************************************************************************)
\* The pieces of colour c that attack the square to through occupied.
ExchangeAttackers(to, c, occupied) ==
  attackers_to_occ(pos, to, occupied) \cap occupied \cap pieces_c(pos, c)

\* Those of them that may capture: a blocker for the own king does not
\* capture while a pinner of the other side is still on its square.
ExchangeCapturers(to, c, occupied) ==
  IF pinners(pos, Opp(c)) \cap occupied # {}
  THEN ExchangeAttackers(to, c, occupied) \ blockers_for_king(pos, c)
  ELSE ExchangeAttackers(to, c, occupied)

\* The least valuable of the pieces on the squares S (the king counts as the
\* most valuable), on the lowest square among equals.
LeastValuable(S) ==
  LET pt == Min({ type_of(piece_on(pos, s)) : s \in S })
  IN  Min({ s \in S : type_of(piece_on(pos, s)) = pt })

\* The material colour c wins on the square to, where a piece worth onSquare
\* stands, when each side in turn either stops or captures with its least
\* valuable capturer; a king captures only if no attacker of the other side
\* is left.
RECURSIVE LeastAttackerGain(_, _, _, _)
LeastAttackerGain(to, c, occupied, onSquare) ==
  IF ExchangeCapturers(to, c, occupied) = {}
  THEN 0
  ELSE IF type_of(piece_on(pos, LeastValuable(ExchangeCapturers(to, c, occupied)))) = KING
  THEN (IF ExchangeAttackers(to, Opp(c), occupied) = {} THEN onSquare ELSE 0)
  ELSE Max2(0,
            onSquare
              - LeastAttackerGain(to, Opp(c),
                                  occupied \ {LeastValuable(ExchangeCapturers(to, c, occupied))},
                                  PieceValue(piece_on(pos, LeastValuable(ExchangeCapturers(to, c, occupied))))))

\* The value of the capture m for the side to move under that rule.
LeastAttackerValue(m) ==
  PieceValue(piece_on(pos, to_sq(m)))
    - LeastAttackerGain(to_sq(m), Opp(pos.sideToMove),
                        pieces(pos) \ {from_sq(m), to_sq(m)},
                        PieceValue(piece_on(pos, from_sq(m))))

\* The legal captures on the square to in P.
ExchangeMoves(P, to) ==
  { m \in LegalMoves(P) : m.type = NORMAL /\ to_sq(m) = to /\ piece_on(P, to) # NO_PIECE }

\* The material the side to move of P wins on the square to when both sides
\* choose freely among their legal captures on to, or stop.
RECURSIVE ExhaustiveGain(_, _)
ExhaustiveGain(P, to) ==
  Max({0} \cup { PieceValue(piece_on(P, to)) - ExhaustiveGain(Q, to) :
                   Q \in { do_move(P, m, gives_check(P, m)) : m \in ExchangeMoves(P, to) } })

\* The exhaustive minimax value of the capture m of the current position.
ExhaustiveValue(m) ==
  PieceValue(piece_on(pos, to_sq(m)))
    - Max({ ExhaustiveGain(Q, to_sq(m)) : Q \in {do_move(pos, m, gives_check(pos, m))} })

\* C7 as stated: see_ge(m, threshold) is true iff the exhaustive minimax
\* value of the capture exchange on the destination square is at least
\* threshold.
C7_SeeIsExhaustiveMinimax ==
  lastOp = "see_ge" => (seeResult <=> ExhaustiveValue(lastMove) >= threshold)

\* C7 amended: see_ge(m, threshold) is true iff the value of the exchange is
\* at least threshold when each side in turn either stops or recaptures with
\* its least valuable attacker (not with an attacker of its choice), a
\* blocker for its own king does not recapture while a pinner is on its
\* square, and a king recaptures only when the opponent has no attacker left.
C7_SeeIsLeastAttackerMinimax ==
  lastOp = "see_ge" => (seeResult <=> LeastAttackerValue(lastMove) >= threshold)

\* see_ge answers true at the value of an exchange in which the second
\* capture opens the line of two more attackers, and which a free choice of
\* the recapturing piece would value lower.
C7_Witness ==
  /\ lastOp = "see_ge"
  /\ Roots[root].fen = FenSeeXray
  /\ lastMove = make_move(make_square(5, 2), make_square(4, 4))
  /\ threshold = LeastAttackerValue(lastMove)
  /\ seeResult
  /\ ExhaustiveValue(lastMove) < threshold

(***************************************************************************)
(* The null move.                                                          *)
(***************************************************************************)
\* The position recorded before the call made last.
Before == snaps[Len(snaps)]

\* The board, the bitboards, the counts and gamePly are those of Before, the
\* side to move is the other one, and one state is linked in front of the
\* chain.
OnlySideFlipped ==
  /\ pos.board = Before.board
  /\ pos.byTypeBB = Before.byTypeBB
  /\ pos.byColorBB = Before.byColorBB
  /\ pos.pieceCount = Before.pieceCount
  /\ pos.gamePly = Before.gamePly
  /\ pos.sideToMove = Opp(Before.sideToMove)
  /\ SubSeq(pos.st, 1, Len(pos.st) - 1) = Before.st

\* The state s with the en passant square cleared, pliesFromNull reset and
\* the key XORed with the side key and the key of the cleared square.
NullMoveState(s) ==
  [s EXCEPT !.epSquare = SQ_NONE,
            !.pliesFromNull = 0,
            !.key = KeyXor(KeyXor(s.key, ZobristSide),
                           IF s.epSquare # SQ_NONE
                           THEN Zobrist_enpassant(file_of(s.epSquare)) ELSE {})]

\* The squares from which a piece of type pt gives check to the king of c.
CheckSquaresOn(c, pt) ==
  CASE pt = PAWN -> pawn_attacks_bb(c, square_king(pos, c))
    [] pt = KING -> {}
    [] OTHER -> attacks_bb(pt, square_king(pos, c), pieces(pos))

C12_TablesFrozenAfterInit ==
  [][initFrame.at = "done" => cuckoo' = cuckoo /\ cuckooMove' = cuckooMove]_vars

\* has_game_cycle has found the key of a reversible move in the tables.
C12_Witness ==
  /\ initFrame.at = "done"
  /\ lastOp = "has_game_cycle"
  /\ cycle

\* The triples (piece, s1, s2) of the claim: a non-pawn piece, s1 < s2, and s2
\* attacked by the piece's type from s1 on the empty board.
CuckooTriples ==
  { t \in { pc \in Pieces : type_of(pc) # PAWN } \X Squares \X Squares :
      t[2] < t[3] /\ t[3] \in attacks_bb(type_of(t[1]), t[2], {}) }

\* The slots of the table that hold a move.
CuckooFilled == { j \in DOMAIN cuckooMove : cuckooMove[j] # MOVE_NONE }

\* C14: while init() is in its loops it has counted fewer than 3668
\* insertions; when it leaves them it has counted 3668, which is the number
\* of triples over the 10 non-pawn pieces, and 3668 slots are filled.
C14_CuckooCount ==
  /\ initFrame.at = "loop" => initFrame.count < 3668
  /\ initFrame.at = "done" => initFrame.count = 3668
  /\ initFrame.at = "done" /\ lastOp = "init" =>
        /\ Cardinality({ pc \in Pieces : type_of(pc) # PAWN }) = 10
        /\ Cardinality(CuckooTriples) = 3668
        /\ Cardinality(CuckooFilled) = 3668

\* init() has left its loops, having pushed at least one victim to its
\* second slot.
C14_Witness ==
  /\ initFrame.at = "done"
  /\ initFrame.count = 3668
  /\ \E j \in CuckooFilled : j # H1(cuckoo[j])

(***************************************************************************)
(* Workers.                                                                *)
(***************************************************************************)
\* C13: in every interleaving of the calls of two workers that own distinct
\* positions and distinct StateInfo records, the position of each worker,
\* with its keys and its state chain, is the one its own calls produce when
\* run alone.
C13_WorkersDoNotInterfere ==
  \A w \in Workers : WorkerPosition(w) = workers[w].alone

\* Both workers are two calls deep, the first after a capture, the second
\* after a null move.
C13_Witness ==
  /\ \A w \in Workers : Len(workers[w].stack) = 2
  /\ workers[1].nodes = 2
  /\ workers[1].obj.pieceCount # RootPosition(WorkerRoot[1]).pieceCount
  /\ workers[2].stack[1] = MOVE_NULL

(***************************************************************************)
(* set() and strings that are not well formed.                             *)
(***************************************************************************)
\* A character of the placement that is no digit, no '/' and no piece letter.
UnknownPieceLetter(f) ==
  \E j \in PlacementField(f) : ~isdigit(f[j]) /\ f[j] # "/" /\ Find(PieceToChar, f[j]) < 0

\* The number of squares the characters j with lo < j < hi of the placement
\* stand for.
RankSquares(f, lo, hi) ==
  Cardinality(UNION { {j} \X (1..PlacementStep(f[j])) : j \in (lo + 1)..(hi - 1) })

\* Some rank of the placement has not 8 squares, or there are not 8 ranks.
WrongRanks(f) ==
  \/ Cardinality({ j \in PlacementField(f) : f[j] = "/" }) # 7
  \/ \E lo, hi \in { j \in PlacementField(f) : f[j] = "/" } \cup {0, PlacementEnd(f)} :
        /\ lo < hi
        /\ \A j \in (lo + 1)..(hi - 1) : f[j] # "/"
        /\ RankSquares(f, lo, hi) # 8

\* The placement has no king of some colour.
MissingKing(f) ==
  \E k \in {"K", "k"} : \A j \in PlacementField(f) : f[j] # k

\* The pieces the placement puts on the board, as [pc, s].
Placed(f) == { Placements(f)[j] : j \in DOMAIN Placements(f) }

\* A castling letter whose rook is not there: no rook of the colour on the
\* back rank for K and Q, none on the named square for a file letter.
CastlingWithoutRook(f) ==
  \E i \in CastlingField(f) : \E c \in Colors :
     /\ c = (IF islower(f[i]) THEN BLACK ELSE WHITE)
     /\ \/ /\ toupper(f[i]) \in {"K", "Q"}
           /\ \A p \in Placed(f) : ~(p.pc = make_piece(c, ROOK) /\ rank_of(p.s) = relative_rank_r(c, 0))
        \/ /\ Find(UpperChars, toupper(f[i])) \in 0..7
           /\ [pc |-> make_piece(c, ROOK),
               s |-> make_square(Find(UpperChars, toupper(f[i])), relative_rank_r(c, 0))] \notin Placed(f)

\* A character of the castling field that is none of K, Q, A..H in either
\* case, nor the '-' of an empty field.
UnrecognisedCastling(f) ==
  \E i \in CastlingField(f) :
     f[i] # "-" /\ toupper(f[i]) \notin {"K", "Q"} /\ Find(UpperChars, toupper(f[i])) \notin 0..7

Malformed(f) ==
  \/ UnknownPieceLetter(f)
  \/ WrongRanks(f)
  \/ MissingKing(f)
  \/ CastlingWithoutRook(f)
  \/ UnrecognisedCastling(f)

\* C15 as stated: set() called with a malformed string ends in an assertion
\* fault; it neither returns a Position nor fails to terminate.
C15_MalformedFaults ==
  lastOp = "set" /\ Malformed(input) => outcome = "assert"

\* The scan of a K or Q for its rook finds none on the squares it visits
\* before it leaves the board: h1 down to a1 and a1 up to h8 for White, h8
\* down to a1 and a8 up to h8 for Black.
ScanLeavesBoard(f) ==
  \E i \in CastlingField(f) : \E c \in Colors :
     /\ c = (IF islower(f[i]) THEN BLACK ELSE WHITE)
     /\ \/ /\ toupper(f[i]) = "K"
           /\ \A p \in Placed(f) : ~(p.pc = make_piece(c, ROOK) /\ p.s \in 0..relative_square(c, SQ_H1))
        \/ /\ toupper(f[i]) = "Q"
           /\ \A p \in Placed(f) : ~(p.pc = make_piece(c, ROOK) /\ p.s \in relative_square(c, SQ_A1)..63)

\* Every piece of the placement is put on a square of the board, no two on
\* the same square.
PlacedApart(f) ==
  /\ \A p \in Placed(f) : p.s \in Squares
  /\ \A j, k \in DOMAIN Placements(f) : Placements(f)[j].s = Placements(f)[k].s => j = k

\* C15 amended: set() ends in an assertion fault when the placement puts a
\* piece outside the board or has no king of some colour; given both kings
\* and every piece on a square of its own it returns a Position, whatever
\* unknown piece letters, short or long ranks, unrecognised castling
\* characters or file letters without a rook the string has.  Neither is said
\* of a string with a K or Q whose scan for the rook leaves the board.
C15_SetTrustsItsInput ==
  lastOp = "set" =>
     /\ (\E p \in Placed(input) : p.s \notin Squares) => outcome = "assert"
     /\ MissingKing(input) /\ ~ScanLeavesBoard(input) => outcome = "assert"
     /\ ~MissingKing(input) /\ PlacedApart(input) /\ ~ScanLeavesBoard(input) => outcome = "returned"

\* set() has returned a position with castling rights for a string with an
\* unknown piece letter and a rank that has not eight squares.
C15_Witness ==
  /\ lastOp = "set"
  /\ outcome = "returned"
  /\ UnknownPieceLetter(input)
  /\ WrongRanks(input)
  /\ St(pos).castlingRights # {}


(***************************************************************************)
(* Repetition distance, is_draw and has_repeated.                          *)
(***************************************************************************)
\* The absolute value of a repetition distance.
Abs(r) == IF r < 0 THEN -r ELSE r

\* The last state of chain S points, by its repetition distance, at a state
\* of the chain with the same key.
PointsAtEqualKey(S) ==
  LET n == Len(S)
      r == S[n].repetition
  IN  r # 0 => (n - Abs(r) >= 1 /\ S[n - Abs(r)].key = S[n].key)

\* C16: in every reachable state, when the repetition distance r of the
\* current state is not 0, the state |r| plies back in the chain exists and
\* has the key of the current state; so it is for the state that
\* do_null_move creates.
C16_RepetitionPointsAtEqualKey == PointsAtEqualKey(pos.st)

\* C16, the part that the code keeps: the state that do_move creates points
\* at a state with its key.
C16_AfterDoMove == lastOp = "do_move" => PointsAtEqualKey(pos.st)

\* A null move made in a position that repeats an earlier one: the new state
\* carries the distance of the state it was copied from.
C16_NullMoveAfterRepetition ==
  /\ lastOp = "do_null_move"
  /\ St(pos).repetition # 0
  /\ St(pos).repetition = pos.st[Len(pos.st) - 1].repetition
  /\ ~PointsAtEqualKey(pos.st)

\* The even distances i in 4..min(rule50, pliesFromNull) at which the chain
\* holds a state with the key of the current state.
SameKeyBack ==
  { i \in 4..Min({St(pos).rule50, St(pos).pliesFromNull}) :
      i % 2 = 0 /\ pos.st[Len(pos.st) - i].key = St(pos).key }

\* C17: after do_move the repetition of the new state is 0 when no state at
\* an even distance i in 4..min(rule50, pliesFromNull) has the key of the new
\* state; otherwise, for the smallest such i, it is i when the repetition of
\* that earlier state is 0 and -i when it is not.
C17_RepetitionOfNewState ==
  lastOp = "do_move" =>
    /\ SameKeyBack = {} => St(pos).repetition = 0
    /\ \A i \in SameKeyBack :
         (\A j \in SameKeyBack : i <= j) =>
            St(pos).repetition =
              (IF pos.st[Len(pos.st) - i].repetition = 0 THEN i ELSE -i)

\* A position met for the third time: two earlier states have its key, and
\* the nearer of them is itself a repetition.
C17_Witness ==
  /\ lastOp = "do_move"
  /\ Cardinality(SameKeyBack) >= 2
  /\ pos.st[Len(pos.st) - Min(SameKeyBack)].repetition > 0
  /\ St(pos).repetition = -Min(SameKeyBack)

\* C18: with rule50 <= 99, is_draw(ply) is true exactly when the repetition
\* distance r of the current state is not 0 and r < ply: a positive r counts
\* only when r < ply, a negative r counts for every ply >= 0, and with r = 0
\* the result is false.
C18_DrawByRepetition ==
  (lastOp = "is_draw" /\ St(pos).rule50 <= 99) =>
    /\ draw = (St(pos).repetition # 0 /\ St(pos).repetition < drawPly)
    /\ St(pos).repetition > 0 => draw = (St(pos).repetition < drawPly)
    /\ St(pos).repetition < 0 => draw
    /\ St(pos).repetition = 0 => ~draw

\* is_draw asked at the ply of the single earlier occurrence: no draw.
C18_Witness ==
  /\ lastOp = "is_draw"
  /\ St(pos).rule50 <= 99
  /\ St(pos).repetition > 0
  /\ St(pos).repetition = drawPly
  /\ ~draw

\* C19: with rule50 > 99, is_draw is true when the side to move is not in
\* check or has a legal move; with rule50 > 99, the side to move in check
\* without a legal move and the repetition distance 0, is_draw is false.
C19_FiftyMoveRule ==
  (lastOp = "is_draw" /\ St(pos).rule50 > 99) =>
    /\ (checkers(pos) = {} \/ LegalMoves(pos) # {}) => draw
    /\ (checkers(pos) # {} /\ LegalMoves(pos) = {} /\ St(pos).repetition = 0) => ~draw

\* is_draw asked of a side mated by the hundredth ply.
C19_Witness ==
  /\ lastOp = "is_draw"
  /\ St(pos).rule50 > 99
  /\ checkers(pos) # {}
  /\ LegalMoves(pos) = {}
  /\ St(pos).repetition = 0
  /\ ~draw

\* The distances, within min(rule50, pliesFromNull) plies of the current
\* state, of the states with a repetition distance other than 0.
FlaggedBack ==
  { d \in 0..Min({St(pos).rule50, St(pos).pliesFromNull}) :
      pos.st[Len(pos.st) - d].repetition # 0 }

\* C20: has_repeated() is true if and only if a state within
\* min(rule50, pliesFromNull) plies back of the current state, the current
\* state included, has a repetition distance other than 0: each such state
\* is visited.
C20_HasRepeatedSeesWindow ==
  lastOp = "has_repeated" => (repeated = (FlaggedBack # {}))

\* C20 along the lines without a null move, where every repetition distance
\* is one that do_move computed.
C20_WithoutNullMoves ==
  (lastOp = "has_repeated" /\ \A k \in 1..Len(stack) : stack[k] # MOVE_NULL) =>
     (repeated = (FlaggedBack # {}))

\* has_repeated() asked just after a null move made in a repeated position.
C20_UnseenFlag ==
  /\ lastOp = "has_repeated"
  /\ St(pos).pliesFromNull = 0
  /\ St(pos).repetition # 0
  /\ ~repeated

(***************************************************************************)
(* has_game_cycle, the backward walks and the cuckoo tables.               *)
(***************************************************************************)
\* min(rule50, pliesFromNull) of the current state.
Horizon == Min({St(pos).rule50, St(pos).pliesFromNull})

\* The state i plies back of the current one.
Back(i) == pos.st[Len(pos.st) - i]

\* The slots of the cuckoo table that hold the key k.
SlotsOf(k) == { j \in {H1(k), H2(k)} : cuckoo[j] = k }

\* The one of the two squares of move m that holds a piece.
OccupiedEnd(m) == IF piece_on(pos, from_sq(m)) # NO_PIECE THEN from_sq(m) ELSE to_sq(m)

\* The conditions under which a cycle over i plies may be reported at ply p.
CycleOver(i, p) ==
  \E j \in SlotsOf(KeyXor(St(pos).key, Back(i).key)) :
     /\ (between_bb(from_sq(cuckooMove[j]), to_sq(cuckooMove[j]))
           \ {from_sq(cuckooMove[j]), to_sq(cuckooMove[j])}) \cap pieces(pos) = {}
     /\ \/ p > i
        \/ /\ color_of(piece_on(pos, OccupiedEnd(cuckooMove[j]))) = pos.sideToMove
           /\ Back(i).repetition # 0

\* C21: has_game_cycle(ply) is false when min(rule50, pliesFromNull) < 3,
\* and it is true only if for some odd i in 3..min(rule50, pliesFromNull)
\* the XOR of the current key and the key i plies back is in the cuckoo
\* table, the squares strictly between the stored move's squares are empty,
\* and either ply > i or the piece on the occupied square is of the side to
\* move and the state i plies back has a repetition distance other than 0.
C21_GameCycleOnlyIf ==
  lastOp = "has_game_cycle" =>
    /\ Horizon < 3 => ~cycle
    /\ cycle => \E i \in 3..Horizon : i % 2 = 1 /\ CycleOver(i, cyclePly)

\* A cycle over three plies reported inside the search tree.
C21_Witness ==
  /\ lastOp = "has_game_cycle"
  /\ Horizon >= 3
  /\ cycle
  /\ cyclePly > 3
  /\ CycleOver(3, cyclePly)

\* A key found in the table whose move is blocked on the current board: no
\* cycle is reported.
C21_BlockedMove ==
  /\ lastOp = "has_game_cycle"
  /\ Horizon >= 3
  /\ ~cycle
  /\ cyclePly > 3
  /\ SlotsOf(KeyXor(St(pos).key, Back(3).key)) # {}
  /\ ~CycleOver(3, cyclePly)

\* C22: in every reachable state pliesFromNull of the current state is at
\* most the number of states before it in the chain, so every distance up to
\* min(rule50, pliesFromNull), which bounds the walks of do_move,
\* has_repeated and has_game_cycle, leads to a state of the chain, whatever
\* halfmove clock the FEN gave.
C22_WalksStayInChain ==
  /\ St(pos).pliesFromNull <= Len(pos.st) - 1
  /\ \A i \in 0..Horizon : Len(pos.st) - i \in DOMAIN pos.st

\* A move taken back in a game whose halfmove clock, set by the FEN, is
\* larger than the chain is long.
C22_Witness ==
  /\ lastOp = "undo_move"
  /\ St(pos).rule50 > Len(pos.st)
  /\ St(pos).pliesFromNull = Len(pos.st) - 1
  /\ St(pos).pliesFromNull > 0

\* C23, as stated: min(rule50, pliesFromNull) is at most 100 in every state
\* reachable by set(), do_move and do_null_move, also when play goes on
\* after the fifty-move counter has passed 99.
C23_HorizonAtMost100 == Horizon <= 100

\* Every do_move of the line was called in a state with rule50 <= 99.
MovedBelowLimit ==
  \A k \in 1..Len(stack) : stack[k] # MOVE_NULL => pos.st[k].rule50 <= 99

\* C23, amended: min(rule50, pliesFromNull) is at most 100 in every state
\* reached by set(), do_move and do_null_move as long as do_move is called
\* only in states with rule50 <= 99.
C23_HorizonWhileBelowLimit == MovedBelowLimit => Horizon <= 100

\* The hundredth reversible ply since set().
C23_Witness ==
  /\ lastOp = "do_move"
  /\ MovedBelowLimit
  /\ Horizon = 100

\* The key init() inserts for the triple t = <<piece, s1, s2>>.
TripleKey(t) == KeyXor(KeyXor(Zobrist_psq(t[1], t[2]), Zobrist_psq(t[1], t[3])), ZobristSide)

\* The key of triple t is in one of its two slots, with its move.
Stored(t) ==
  \E j \in {H1(TripleKey(t)), H2(TripleKey(t))} :
     cuckoo[j] = TripleKey(t) /\ cuckooMove[j] = make_move(t[2], t[3])

\* C24: the insertion loops of init() come to an end, and when init() has
\* finished, the key of every inserted move s1 -> s2 of a piece is stored in
\* cuckoo at H1 or H2 of the key, with cuckooMove at that index the move: no
\* entry is lost by eviction.
C24_EveryKeyStored ==
  /\ <>(initFrame.at = "done")
  /\ []((initFrame.at = "done" /\ lastOp = "init") => \A t \in CuckooTriples : Stored(t))

\* init() has finished with a key that an eviction pushed to its second slot.
C24_Witness ==
  /\ initFrame.at = "done"
  /\ lastOp = "init"
  /\ \E t \in CuckooTriples :
        Stored(t) /\ cuckoo[H1(TripleKey(t))] # TripleKey(t)

(***************************************************************************)
(* The counters, the castling rights and the en passant square of do_move. *)
(***************************************************************************)
\* The move m made in position B takes a piece: an en passant capture, or a
\* move other than castling onto an occupied square.
IsCapture(B, m) ==
  m.type = EN_PASSANT \/ (m.type # CASTLING /\ piece_on(B, to_sq(m)) # NO_PIECE)

\* The move m made in position B moves a pawn.
IsPawnMove(B, m) == type_of(piece_on(B, from_sq(m))) = PAWN

\* C25: do_move adds exactly 1 to gamePly and to pliesFromNull; the new
\* rule50 is 0 after a capture (en passant included) or a pawn move
\* (promotion included) and the previous rule50 + 1 otherwise; castling
\* counts as no capture and records no captured piece.
C25_DoMoveCounters ==
  lastOp = "do_move" =>
    \A B \in {Before} :
       /\ pos.gamePly = B.gamePly + 1
       /\ St(pos).pliesFromNull = St(B).pliesFromNull + 1
       /\ St(pos).rule50 = (IF IsCapture(B, lastMove) \/ IsPawnMove(B, lastMove)
                            THEN 0 ELSE St(B).rule50 + 1)
       /\ lastMove.type = CASTLING =>
             /\ St(pos).capturedPiece = NO_PIECE
             /\ St(pos).rule50 = St(B).rule50 + 1

\* A castling move made when the clock was already running.
C25_Witness ==
  /\ lastOp = "do_move"
  /\ lastMove.type = CASTLING
  /\ St(pos).rule50 >= 2
  /\ St(pos).capturedPiece = NO_PIECE

\* The castling rights of colour c.
RightsOf(c) == IF c = WHITE THEN WHITE_CASTLING ELSE BLACK_CASTLING

\* C26: after do_move the castling rights are the previous ones without
\* those in castlingRightsMask[from] | castlingRightsMask[to]; so the rights
\* only shrink, the side whose king moves or castles keeps none, and the
\* right of a rook is lost when the rook moves from, or is captured on, its
\* origin square.
C26_CastlingRights ==
  lastOp = "do_move" =>
    \A B \in {Before} :
       /\ St(pos).castlingRights =
            St(B).castlingRights \ (B.castlingRightsMask[from_sq(lastMove)]
                                      \cup B.castlingRightsMask[to_sq(lastMove)])
       /\ St(pos).castlingRights \subseteq St(B).castlingRights
       /\ type_of(piece_on(B, from_sq(lastMove))) = KING =>
             St(pos).castlingRights \cap RightsOf(B.sideToMove) = {}
       /\ \A cr \in St(B).castlingRights :
             (B.castlingRookSquare[cr] \in {from_sq(lastMove), to_sq(lastMove)}) =>
                cr \notin St(pos).castlingRights

\* A rook that leaves its origin square to capture the other side's rook on
\* its origin square: each side loses that one right and keeps the other.
C26_Witness ==
  /\ lastOp = "do_move"
  /\ lastMove.type = NORMAL
  /\ type_of(piece_on(Before, from_sq(lastMove))) = ROOK
  /\ type_of(piece_on(Before, to_sq(lastMove))) = ROOK
  /\ St(Before).castlingRights = ANY_CASTLING
  /\ Cardinality(St(pos).castlingRights) = 2
  /\ St(pos).castlingRights \cap WHITE_CASTLING # {}
  /\ St(pos).castlingRights \cap BLACK_CASTLING # {}

\* Move m of position B pushes a pawn two squares.
IsDoublePush(B, m) ==
  /\ type_of(piece_on(B, from_sq(m))) = PAWN
  /\ Abs(to_sq(m) - from_sq(m)) = 16

\* The square a double push passes over.
Skipped(m) == (from_sq(m) + to_sq(m)) \div 2

\* A pawn of colour c of position B attacks square s.
PawnAttacks(B, c, s) == \E p \in pieces_cp(B, c, PAWN) : s \in pawn_attacks_bb(c, p)

\* C27: after do_move the en passant square is set iff the move was a pawn
\* double push and at least one enemy pawn attacks the skipped square, and
\* then it is the skipped square; in every state the en passant square is
\* none or on the relative sixth rank of the side to move, and pos_is_ok
\* holds.
C27_EnPassantSquare ==
  /\ lastOp = "do_move" =>
       \A B \in {Before} :
          /\ St(pos).epSquare # SQ_NONE <=>
               (IsDoublePush(B, lastMove) /\ PawnAttacks(B, Opp(B.sideToMove), Skipped(lastMove)))
          /\ St(pos).epSquare # SQ_NONE => St(pos).epSquare = Skipped(lastMove)
  /\ \/ St(pos).epSquare = SQ_NONE
     \/ St(pos).epSquare \in Squares /\ relative_rank(pos.sideToMove, St(pos).epSquare) = 5
  /\ pos_is_ok(pos)

\* A black double push next to a white pawn has set the en passant square.
C27_Witness ==
  /\ lastOp = "do_move"
  /\ Before.sideToMove = BLACK
  /\ IsDoublePush(Before, lastMove)
  /\ St(pos).epSquare = Skipped(lastMove)

\* A double push with no enemy pawn next to the skipped square, made while an
\* en passant square was set: the square is cleared.
C27_PushWithoutThreat ==
  /\ lastOp = "do_move"
  /\ IsDoublePush(Before, lastMove)
  /\ St(Before).epSquare # SQ_NONE
  /\ St(pos).epSquare = SQ_NONE

\* The pawn key, the material key and the non-pawn material of the current
\* state are those set_state computes from the board.
KeysFromScratch ==
  /\ St(pos).pawnKey = StatePawnKey(pos)
  /\ St(pos).materialKey = StateMaterialKey(pos)
  /\ \A c \in Colors : St(pos).nonPawnMaterial[c] = StateNonPawnMaterial(pos, c)

\* C28: after any sequence of moves (captures, en passant captures and
\* promotions included) the incrementally kept pawnKey, materialKey and
\* nonPawnMaterial equal the values set_state computes from scratch on the
\* current board.
C28_MaterialFromScratch == lastOp \in {"do_move", "do_null_move"} => KeysFromScratch

\* A pawn has captured a piece on the last rank and promoted.
C28_Witness ==
  /\ lastOp = "do_move"
  /\ lastMove.type = PROMOTION
  /\ St(pos).capturedPiece # NO_PIECE
  /\ type_of(St(pos).capturedPiece) # PAWN
  /\ KeysFromScratch

\* An en passant capture follows a double push.
C28_EnPassant ==
  /\ lastOp = "do_move"
  /\ lastMove.type = EN_PASSANT
  /\ Len(pos.st) = 3
  /\ KeysFromScratch

\* A pawn promotes with a capture and the new piece is captured in turn.
C28_Retaken ==
  /\ lastOp = "do_move"
  /\ Len(pos.st) = 3
  /\ St(pos).capturedPiece # NO_PIECE
  /\ pos.st[2].capturedPiece # NO_PIECE
  /\ type_of(piece_on(Before, to_sq(lastMove))) # type_of(pos.st[2].capturedPiece)
  /\ KeysFromScratch

\* One call: do_move and do_null_move link one state in front of the chain
\* and leave the states already in it as they were; undo_move and
\* undo_null_move drop the current state and write none.
StepFrame ==
  /\ lastOp' \in {"do_move", "do_null_move"} =>
        /\ Len(pos'.st) = Len(pos.st) + 1
        /\ \A i \in 1..Len(pos.st) : pos'.st[i] = pos.st[i]
  /\ lastOp' \in {"undo_move", "undo_null_move"} =>
        pos'.st = SubSeq(pos.st, 1, Len(pos.st) - 1)

\* Every state of the chain that has a successor is as it was when it was
\* the current one.
AncestorsKept ==
  \A i \in 1..Len(snaps) :
     /\ Len(snaps[i].st) = i
     /\ pos.st[i] = St(snaps[i])

\* C29: do_move and do_null_move write only the new state record and no
\* earlier StateInfo of the chain; undo_move and undo_null_move write no
\* StateInfo and only move the current-state pointer back; so every ancestor
\* state keeps the key, castling rights, en passant square and repetition
\* distance (and every other field) it had when it was current.
C29_EarlierStatesUntouched == [][StepFrame]_vars /\ []AncestorsKept

\* A null move made after a double push: the state of the push keeps its en
\* passant square and its counters while the new state has none.
C29_Witness ==
  /\ lastOp = "do_null_move"
  /\ Len(pos.st) = 3
  /\ pos.st[2].epSquare # SQ_NONE
  /\ pos.st[2].pliesFromNull = 1
  /\ St(pos).epSquare = SQ_NONE
  /\ pos.st[2] = St(Before)

\* A move that removes castling rights, undone: the state before it is the
\* current one again, with its rights.
C29_Rewound ==
  /\ lastOp = "undo_move"
  /\ unwound = 1
  /\ Len(pos.st) = 2
  /\ St(pos).castlingRights # {}
  /\ type_of(piece_on(pos, to_sq(lastMove))) = ROOK
  /\ AncestorsKept

\* The squares do_castling gives the king and the rook of the castling move m
\* made by colour us.
KingTo(us, m) == relative_square(us, IF to_sq(m) > from_sq(m) THEN SQ_G1 ELSE SQ_C1)

RookTo(us, m) == relative_square(us, IF to_sq(m) > from_sq(m) THEN SQ_F1 ELSE SQ_D1)

\* Positions P and Q have the same pieces on the same squares, on the board
\* and in the bitboards.
SamePlacement(P, Q) ==
  /\ \A s \in Squares : piece_on(P, s) = piece_on(Q, s)
  /\ P.byTypeBB = Q.byTypeBB
  /\ P.byColorBB = Q.byColorBB
  /\ P.pieceCount = Q.pieceCount

\* C30: for every Chess960 back rank with the king between its rooks,
\* do_castling<true> leaves the king on relative G1/C1 and the rook on
\* relative F1/D1, the squares they left empty and every other square as it
\* was, also when the king starts on the rook's destination, the rook on the
\* king's destination or the king on its own destination; do_castling<false>
\* on the result restores the original placement.
C30_Chess960Castling ==
  /\ lastOp = "do_castling" =>
       \A B \in {Before} : \A us \in {B.sideToMove} :
          /\ piece_on(pos, KingTo(us, lastMove)) = make_piece(us, KING)
          /\ piece_on(pos, RookTo(us, lastMove)) = make_piece(us, ROOK)
          /\ \A s \in Squares \ {KingTo(us, lastMove), RookTo(us, lastMove)} :
                piece_on(pos, s) = IF s \in {from_sq(lastMove), to_sq(lastMove)}
                                   THEN NO_PIECE ELSE piece_on(B, s)
          /\ pieces_cp(pos, us, KING) = {KingTo(us, lastMove)}
          /\ pieces_cp(pos, us, ROOK) =
                (pieces_cp(B, us, ROOK) \ {to_sq(lastMove)}) \cup {RookTo(us, lastMove)}
          /\ pieces(pos) = { s \in Squares : piece_on(pos, s) # NO_PIECE }
          /\ pos.pieceCount = B.pieceCount
  /\ lastOp = "undo_castling" => SamePlacement(pos, Before)

\* A castling undone whose king started on the rook's destination.
C30_Witness ==
  /\ lastOp = "undo_castling"
  /\ from_sq(lastMove) = RookTo(pos.sideToMove, lastMove)
  /\ SamePlacement(pos, Before)

\* The rook starts on the king's destination.
C30_RookOnKingTo ==
  /\ lastOp = "do_castling"
  /\ to_sq(lastMove) = KingTo(pos.sideToMove, lastMove)
  /\ piece_on(pos, to_sq(lastMove)) = make_piece(pos.sideToMove, KING)

\* The king already stands on its destination and only the rook moves.
C30_KingStays ==
  /\ lastOp = "do_castling"
  /\ from_sq(lastMove) = KingTo(pos.sideToMove, lastMove)
  /\ to_sq(lastMove) # RookTo(pos.sideToMove, lastMove)

\* King and rook change places.
C30_Swap ==
  /\ lastOp = "do_castling"
  /\ from_sq(lastMove) = RookTo(pos.sideToMove, lastMove)
  /\ to_sq(lastMove) = KingTo(pos.sideToMove, lastMove)

\* After m is made in P the king of the side that moved is not attacked.
KingSafeAfter(P, m) ==
  \A Q \in {do_move(P, m, FALSE)} :
     attackers_to(Q, square_king(Q, P.sideToMove)) \cap pieces_c(Q, Opp(P.sideToMove)) = {}

\* The pseudo-legal moves of P other than castling.
PlainMoves(P) == { m \in PseudoLegalMoves(P) : m.type # CASTLING }

\* C31: for every pseudo-legal move other than castling (normal move, capture,
\* king move, promotion, en passant) legal() is true iff the king of the side
\* that moved is not attacked once the move is made.
C31_LegalIffKingSafe ==
  \A m \in PlainMoves(pos) : legal(pos, m) <=> KingSafeAfter(pos, m)

\* The king may not step back along the line of the rook that checks it,
\* though the square is shielded by the king itself.
C31_Witness ==
  /\ checkers(pos) # {}
  /\ \E m \in PlainMoves(pos) :
        /\ from_sq(m) = square_king(pos, pos.sideToMove)
        /\ attackers_to(pos, to_sq(m)) \cap pieces_c(pos, Opp(pos.sideToMove)) = {}
        /\ ~legal(pos, m)
        /\ ~KingSafeAfter(pos, m)

\* An en passant capture that would open the rank to a rook.
C31_EnPassantPinned ==
  \E m \in PlainMoves(pos) : m.type = EN_PASSANT /\ ~legal(pos, m) /\ ~KingSafeAfter(pos, m)

\* A pinned piece with a move along the pin and a move off it.
C31_Pinned ==
  \E m, n \in PlainMoves(pos) :
     /\ from_sq(m) = from_sq(n)
     /\ from_sq(m) \in blockers_for_king(pos, pos.sideToMove)
     /\ legal(pos, m) /\ ~legal(pos, n)

\* The square the king of the side to move lands on in castling move m.
KingDestination(P, m) == KingTo(P.sideToMove, m)

\* The king's path in castling move m of P: the squares from its destination
\* back to its origin, the origin left out.
KingPath(P, m) ==
  { s \in Squares : /\ s # from_sq(m)
                    /\ Min({from_sq(m), KingDestination(P, m)}) <= s
                    /\ s <= Max({from_sq(m), KingDestination(P, m)}) }

\* Square s of P is attacked by a piece of the side not to move.
Attacked(P, s) == attackers_to(P, s) \cap pieces_c(P, Opp(P.sideToMove)) # {}

\* The walk legal() makes for castling move m of P.
WalkOf(P, m) ==
  CastlingWalk(P, P.sideToMove, KingDestination(P, m), from_sq(m),
               IF KingDestination(P, m) > from_sq(m) THEN -1 ELSE 1, 0)

\* C32: for a castling move legal() is false if a square of the king's path,
\* from its destination back to but not including its origin, is attacked;
\* the walk over the path ends, after at most as many squares as the path
\* has, for every origin of the king and either side, also when the king
\* starts on its destination.
C32_CastlingPath ==
  \A m \in CastlingMoves(pos) :
     /\ (\E s \in KingPath(pos, m) : Attacked(pos, s)) => ~legal(pos, m)
     /\ WalkOf(pos, m).ended
     /\ WalkOf(pos, m).steps <= Cardinality(KingPath(pos, m))
     /\ WalkOf(pos, m).attacked <=> (\E s \in KingPath(pos, m) : Attacked(pos, s))

\* A castling refused because a square the king passes over, not the one it
\* lands on, is attacked, while the castling to the other side was made and
\* taken back.
C32_Witness ==
  /\ lastOp = "undo_move"
  /\ \E m \in CastlingMoves(pos) :
        /\ ~Attacked(pos, KingDestination(pos, m))
        /\ \E s \in KingPath(pos, m) : Attacked(pos, s)
        /\ ~legal(pos, m)

\* The king starts on its destination: no square is tested.
C32_EmptyPath ==
  \E m \in CastlingMoves(pos) :
     /\ from_sq(m) = KingDestination(pos, m)
     /\ WalkOf(pos, m).steps = 0
     /\ WalkOf(pos, m).ended

\* No square of the king's path in castling move m of P is attacked.
PathUnattacked(P, m) == \A s \in KingPath(P, m) : ~Attacked(P, s)

\* C33: a castling move whose king path is unattacked is refused by legal()
\* in Chess960 when the castling rook is a blocker for the mover's own king,
\* and accepted otherwise; outside Chess960 the test of the rook is not made
\* and the move is accepted.
C33_RookAsBlocker ==
  \A m \in CastlingMoves(pos) :
     PathUnattacked(pos, m) =>
        (legal(pos, m) <=>
           ~(pos.chess960 /\ to_sq(m) \in blockers_for_king(pos, pos.sideToMove)))

\* In Chess960 the castling rook shields the king from a rook behind it, on
\* a path that is not attacked: the castling is refused, while the one to the
\* other side was made and taken back.
C33_Witness ==
  /\ lastOp = "undo_move"
  /\ pos.chess960
  /\ \E m \in CastlingMoves(pos) :
        /\ PathUnattacked(pos, m)
        /\ to_sq(m) \in blockers_for_king(pos, pos.sideToMove)
        /\ ~legal(pos, m)

\* Without the Chess960 flag the same castling has been made, and the king
\* stands attacked.
C33_NotChess960 ==
  /\ lastOp = "do_move"
  /\ ~pos.chess960
  /\ to_sq(lastMove) \in blockers_for_king(Before, Before.sideToMove)
  /\ attackers_to(pos, square_king(pos, Before.sideToMove)) \cap pieces_c(pos, pos.sideToMove) # {}

\* After m is made in P the king of the new side to move is attacked by a
\* piece of the side that moved.
CheckAfter(P, m) ==
  \A Q \in {do_move(P, m, FALSE)} :
     attackers_to(Q, square_king(Q, Q.sideToMove)) \cap pieces_c(Q, P.sideToMove) # {}

\* C34: for every legal move of any type (direct check, discovered check,
\* promotion, en passant, castling) gives_check() is true iff after do_move
\* the king of the new side to move is attacked by a piece of the side that
\* moved; and the checkers do_move records with that flag are those attackers.
C34_GivesCheckIffCheck ==
  /\ \A m \in LegalMoves(pos) : gives_check(pos, m) <=> CheckAfter(pos, m)
  /\ lastOp = "do_move" =>
        checkers(pos) = attackers_to(pos, square_king(pos, pos.sideToMove))
                           \cap pieces_c(pos, Opp(pos.sideToMove))

\* A castling that gives check because the king, leaving, opens the back rank
\* to the rook.
C34_Witness ==
  /\ lastOp = "do_move"
  /\ lastMove.type = CASTLING
  /\ checkers(pos) # {}
  /\ from_sq(lastMove) \in blockers_for_king(Before, pos.sideToMove)
  /\ gives_check(Before, lastMove)

\* An en passant capture that gives check only because the captured pawn
\* leaves the rank between a rook and the king.
C34_EnPassant ==
  /\ lastOp = "do_move"
  /\ lastMove.type = EN_PASSANT
  /\ checkers(pos) # {}
  /\ to_sq(lastMove) \notin checkers(pos)

\* A promotion that gives check only through the square the pawn left.
C34_Promotion ==
  /\ lastOp = "do_move"
  /\ lastMove.type = PROMOTION
  /\ checkers(pos) # {}
  /\ to_sq(lastMove) \notin check_squares(Before, lastMove.promo)

\* a, q and b lie on one line of the board, q strictly inside the segment.
Inside(a, b) ==
  { q \in Squares \ {a, b} :
      /\ \/ file_of(a) = file_of(b)
         \/ rank_of(a) = rank_of(b)
         \/ Abs(file_of(a) - file_of(b)) = Abs(rank_of(a) - rank_of(b))
      /\ (file_of(q) - file_of(a)) * (rank_of(b) - rank_of(a))
            = (rank_of(q) - rank_of(a)) * (file_of(b) - file_of(a))
      /\ Abs(file_of(q) - file_of(a)) + Abs(file_of(b) - file_of(q)) = Abs(file_of(b) - file_of(a))
      /\ Abs(rank_of(q) - rank_of(a)) + Abs(rank_of(b) - rank_of(q)) = Abs(rank_of(b) - rank_of(a)) }

\* The rooks, bishops and queens among sliders that stand on a line with s
\* along which they move.
AlignedSliders(P, sliders, s) ==
  { x \in sliders \ {s} :
      \/ /\ type_of(piece_on(P, x)) \in {ROOK, QUEEN}
         /\ file_of(x) = file_of(s) \/ rank_of(x) = rank_of(s)
      \/ /\ type_of(piece_on(P, x)) \in {BISHOP, QUEEN}
         /\ Abs(file_of(x) - file_of(s)) = Abs(rank_of(x) - rank_of(s)) }

\* The blockers and pinners for s when the pieces of occ count as standing
\* between s and a slider.
SoleBlockers(P, sliders, s, occ) ==
  [blockers |-> { b \in Squares : \E x \in AlignedSliders(P, sliders, s) : Inside(s, x) \cap occ = {b} },
   pinners  |-> { x \in AlignedSliders(P, sliders, s) :
                    \E b \in pieces_c(P, color_of(piece_on(P, s))) : Inside(s, x) \cap occ = {b} }]

\* What set_check_info stored for the king of c agrees with r.
StoredBlockers(c, r) ==
  /\ blockers_for_king(pos, c) = r.blockers
  /\ pinners(pos, Opp(c)) = r.pinners

C35_PinEnded ==
  /\ lastOp = "do_move"
  /\ \E c \in Colors :
        /\ pinners(Before, Opp(c)) # {}
        /\ blockers_for_king(Before, c) # {}
        /\ pinners(pos, Opp(c)) = {}
        /\ blockers_for_king(pos, c) = {}

\* A blocker of the slider's own colour: a discovered attack, no pinner.
C35_Discovery ==
  \E c \in Colors :
     /\ blockers_for_king(pos, c) \cap pieces_c(pos, Opp(c)) # {}
     /\ pinners(pos, Opp(c)) = {}

\* The movement rule of a knight, bishop, rook, queen or king takes it from
\* from to to when the pieces stand on occ.
PieceReaches(pt, from, to, occ) ==
  LET df == Abs(file_of(to) - file_of(from))
      dr == Abs(rank_of(to) - rank_of(from))
      clear == Inside(from, to) \cap occ = {}
  IN  CASE pt = KNIGHT -> {df, dr} = {1, 2}
        [] pt = BISHOP -> df = dr /\ df > 0 /\ clear
        [] pt = ROOK   -> (df = 0 \/ dr = 0) /\ df + dr > 0 /\ clear
        [] pt = QUEEN  -> (df = 0 \/ dr = 0 \/ df = dr) /\ df + dr > 0 /\ clear
        [] pt = KING   -> df <= 1 /\ dr <= 1 /\ df + dr > 0
        [] OTHER -> FALSE

Forward(c) == IF c = WHITE THEN 1 ELSE -1

\* A pawn of colour us goes from from to to: a capture onto a piece of the
\* other side, a single push, or a double push from its second rank.
PawnReaches(P, us, from, to) ==
  /\ rank_of(to) \notin {0, 7}
  /\ \/ /\ Abs(file_of(to) - file_of(from)) = 1
        /\ rank_of(to) = rank_of(from) + Forward(us)
        /\ to \in pieces_c(P, Opp(us))
     \/ /\ file_of(to) = file_of(from)
        /\ rank_of(to) = rank_of(from) + Forward(us)
        /\ to \notin pieces(P)
     \/ /\ file_of(to) = file_of(from)
        /\ rank_of(from) = (IF us = WHITE THEN 1 ELSE 6)
        /\ rank_of(to) = rank_of(from) + 2 * Forward(us)
        /\ to \notin pieces(P)
        /\ Inside(from, to) \cap pieces(P) = {}

Reaches(P, us, pt, from, to) ==
  IF pt = PAWN THEN PawnReaches(P, us, from, to) ELSE PieceReaches(pt, from, to, pieces(P))

\* A piece of colour them attacks s once the piece on gone is off the board.
AttackedWithout(P, them, s, gone) ==
  \E x \in pieces_c(P, them) :
     IF type_of(piece_on(P, x)) = PAWN
     THEN Abs(file_of(s) - file_of(x)) = 1 /\ rank_of(s) = rank_of(x) + Forward(them)
     ELSE PieceReaches(type_of(piece_on(P, x)), x, s, pieces(P) \ {gone})

\* What the side to move in check must do with a move from from to to.
AnswersCheck(P, from, to) ==
  LET us == P.sideToMove
      ksq == square_king(P, us)
  IN  \/ checkers(P) = {}
      \/ from = ksq /\ ~AttackedWithout(P, Opp(us), to, from)
      \/ /\ from # ksq
         /\ Cardinality(checkers(P)) = 1
         /\ \E x \in checkers(P) : to = x \/ to \in Inside(ksq, x)

\* The conditions the answer "true" stands for.
Sound(P, m) ==
  /\ piece_on(P, from_sq(m)) # NO_PIECE
  /\ color_of(piece_on(P, from_sq(m))) = P.sideToMove
  /\ to_sq(m) \notin pieces_c(P, P.sideToMove)
  /\ Reaches(P, P.sideToMove, type_of(piece_on(P, from_sq(m))), from_sq(m), to_sq(m))
  /\ AnswersCheck(P, from_sq(m), to_sq(m))

\* C36: when pseudo_legal answers true to a NORMAL move value, the origin
\* holds a piece of the side to move, the destination none, the piece's
\* movement rule reaches the destination on the current occupancy, and a
\* side in check moves its king to a square not attacked with the king
\* removed or, in single check, another piece onto the checker's square or
\* between king and checker.
C36_PseudoLegalSound ==
  (lastOp = "pseudo_legal" /\ seeResult) => Sound(pos, lastMove)

\* A king in check is refused the square behind it on the checking line,
\* which only the king itself shields.
C36_KingShielded ==
  /\ lastOp = "pseudo_legal"
  /\ ~seeResult
  /\ checkers(pos) # {}
  /\ from_sq(lastMove) = square_king(pos, pos.sideToMove)
  /\ to_sq(lastMove) \in attacks_bb(KING, from_sq(lastMove), {}) \ pieces(pos)
  /\ attackers_to(pos, to_sq(lastMove)) \cap pieces_c(pos, Opp(pos.sideToMove)) = {}

\* A double push is accepted that blocks the check.
C36_Witness ==
  /\ lastOp = "pseudo_legal"
  /\ seeResult
  /\ checkers(pos) # {}
  /\ type_of(piece_on(pos, from_sq(lastMove))) = PAWN
  /\ Abs(to_sq(lastMove) - from_sq(lastMove)) = 16

\* In double check every move of another piece is refused.
C36_DoubleCheck ==
  /\ lastOp = "pseudo_legal"
  /\ ~seeResult
  /\ more_than_one(checkers(pos))
  /\ to_sq(lastMove) \in checkers(pos)
  /\ type_of(piece_on(pos, from_sq(lastMove))) = QUEEN
  /\ Reaches(pos, pos.sideToMove, QUEEN, from_sq(lastMove), to_sq(lastMove))

\* The answers are those of the generator's list: pseudo_legal is true of
\* the NORMAL moves the generator produces, king evasions onto attacked
\* squares excepted.
C36_AcceptsGenerated ==
  /\ lastOp = "pseudo_legal"
  /\ seeResult
  /\ make_move(from_sq(lastMove), to_sq(lastMove)) \in LegalMoves(pos)
  /\ lastMove.promo = QUEEN

\* The passes of the see_ge call the state records.
Passes == SeeGeSteps(pos, lastMove, threshold).removed

\* C37: see_ge ends on every position and move; every pass of its loop that
\* does not return takes exactly one piece of the side to capture off the
\* simulated occupancy, the sides alternate, so the passes are at most as
\* many as the pieces on the board; the position is the one set() built.
C37_SeeTerminates ==
  lastOp = "see_ge" =>
     /\ SeeGeSteps(pos, lastMove, threshold).ended
     /\ SeeGeSteps(pos, lastMove, threshold).result = seeResult
     /\ \A i \in 1..Len(Passes) :
           /\ Passes[i].sq \in Passes[i].occupied \cap pieces_c(pos, Passes[i].stm)
           /\ Passes[i].after = Passes[i].occupied \ {Passes[i].sq}
           /\ Passes[i].stm = (IF i % 2 = 1 THEN Opp(pos.sideToMove) ELSE pos.sideToMove)
           /\ i > 1 => Passes[i].occupied = Passes[i - 1].after
     /\ Len(Passes) <= Cardinality(pieces(pos))
     /\ pos = expect

\* An exchange of at least four captures after the move.
C37_Witness ==
  /\ lastOp = "see_ge"
  /\ Len(Passes) >= 4

\* see_ge returns before its loop.
C37_NoPass ==
  /\ lastOp = "see_ge"
  /\ lastMove.type = NORMAL
  /\ piece_on(pos, to_sq(lastMove)) = NO_PIECE
  /\ Passes = <<>>
  /\ ~seeResult

\* C38: when see_ge(m, t) is true, see_ge(m, t') is true for every lower
\* threshold t'; for a move that is not NORMAL the result is 0 >= t.
C38_SeeMonotone ==
  lastOp = "see_ge" =>
     /\ seeResult =>
           \A t \in SeeAnyThresholds : t <= threshold => see_ge(pos, lastMove, t)
     /\ lastMove.type # NORMAL => (seeResult <=> 0 >= threshold)

\* A capture passes the threshold of the state and fails a higher one.
C38_Witness ==
  /\ lastOp = "see_ge"
  /\ lastMove.type = NORMAL
  /\ piece_on(pos, to_sq(lastMove)) # NO_PIECE
  /\ seeResult
  /\ Passes # <<>>
  /\ \E t \in SeeAnyThresholds : t > threshold /\ ~see_ge(pos, lastMove, t)

\* A promotion fails the threshold 1.
C38_Promotion ==
  /\ lastOp = "see_ge"
  /\ lastMove.type = PROMOTION
  /\ threshold = 1
  /\ ~seeResult

\* Castling and en passant pass the threshold 0.
C38_CastlingPasses ==
  /\ lastOp = "see_ge"
  /\ lastMove.type = CASTLING
  /\ threshold = 0
  /\ seeResult

C38_EnPassantPasses ==
  /\ lastOp = "see_ge"
  /\ lastMove.type = EN_PASSANT
  /\ threshold = 0
  /\ seeResult

\* The index of the first character of the k-th field of a string from i on.
RECURSIVE FieldStart(_, _, _)
FieldStart(fenStr, i, k) ==
  IF k = 1 \/ i > Len(fenStr) THEN i
  ELSE FieldStart(fenStr, i + 1, IF fenStr[i] = " " THEN k - 1 ELSE k)

\* The square the fourth field of the input names on the sixth rank of the
\* side to move, or SQ_NONE.
NamedSquare ==
  LET i == FieldStart(input, 1, 4)
      six == IF pos.sideToMove = WHITE THEN "6" ELSE "3"
  IN  IF i + 1 <= Len(input) /\ input[i] \in {"a", "b", "c", "d", "e", "f", "g", "h"}
         /\ input[i + 1] = six
      THEN make_square(Find(LowerChars, input[i]), IF pos.sideToMove = WHITE THEN 5 ELSE 2)
      ELSE SQ_NONE

\* The input with "-" as its fourth field.
WithoutEpField ==
  LET i == FieldStart(input, 1, 4)
      j == FieldStart(input, 1, 5)
  IN  SubSeq(input, 1, i - 1) \o <<"-">> \o SubSeq(input, j - 1, Len(input))

\* The capture the square s stands for can be made on the board of pos.
Capturable(s) ==
  LET us == pos.sideToMove
  IN  /\ \E x \in pieces_cp(pos, us, PAWN) :
            Abs(file_of(x) - file_of(s)) = 1 /\ rank_of(x) + Forward(us) = rank_of(s)
      /\ (s - 8 * Forward(us)) \in pieces_cp(pos, Opp(us), PAWN)
      /\ piece_on(pos, s) = NO_PIECE
      /\ piece_on(pos, s + 8 * Forward(us)) = NO_PIECE

\* C39: after set() the en passant square is the square the FEN names when
\* that square is on the relative sixth rank, a pawn of the side to move
\* attacks it, a pawn of the other side stands in front of it and the square
\* and the one behind it are empty; otherwise it is none, and position and
\* key are those of the same FEN without the field.
C39_EnPassantFromFen ==
  lastOp = "set" =>
     /\ ep_square(pos) = (IF NamedSquare # SQ_NONE /\ Capturable(NamedSquare)
                          THEN NamedSquare ELSE SQ_NONE)
     /\ \A Q \in {set(WithoutEpField, FALSE)} :
           IF ep_square(pos) = SQ_NONE
           THEN pos = Q
           ELSE /\ St(pos).key = KeyXor(St(Q).key, ZobristEnpassant[file_of(ep_square(pos))])
                /\ St(pos).key # St(Q).key

\* The named square is kept.
C39_Witness ==
  /\ lastOp = "set"
  /\ NamedSquare # SQ_NONE
  /\ ep_square(pos) = NamedSquare

\* A named square whose capture only lacks the empty square behind it.
C39_Behind ==
  /\ lastOp = "set"
  /\ NamedSquare # SQ_NONE
  /\ ep_square(pos) = SQ_NONE
  /\ pawn_attacks_bb(Opp(pos.sideToMove), NamedSquare) \cap pieces_cp(pos, pos.sideToMove, PAWN) # {}
  /\ (NamedSquare - pawn_push(pos.sideToMove)) \in pieces_cp(pos, Opp(pos.sideToMove), PAWN)
  /\ piece_on(pos, NamedSquare) = NO_PIECE
  /\ piece_on(pos, NamedSquare + pawn_push(pos.sideToMove)) # NO_PIECE

\* A field that names a square of another rank where the capture could be made
\* on the sixth.
C39_OtherRank ==
  /\ lastOp = "set"
  /\ NamedSquare = SQ_NONE
  /\ input[FieldStart(input, 1, 4)] = "d"
  /\ Capturable(relative_square(pos.sideToMove, 43))
  /\ ep_square(pos) = SQ_NONE
=============================================================================
